---- MODULE Spec2Model ----
(***************************************************************************)
(* A model of randovania's external patcher integration                    *)
(* (randovania/games/prime/claris_randomizer.py):                          *)
(*   - the subprocess progress protocol (_read_data, _run_with_args),      *)
(*   - apply_layout with the menu-mod restore and the pak backups,         *)
(*   - the pickup patch array (_calculate_indices),                        *)
(*   - the elevator shuffle (try_randomize_elevators).                     *)
(* Each part has its own specification over the shared variables; the      *)
(* variables of the other parts stay at their initial values.              *)
(***************************************************************************)
EXTENDS Integers, Sequences, FiniteSets, TLC

VARIABLES
    \* ---- create_windows_release.py -------------------------------------
    package_folder,    \* what dist/randovania holds: paths below it, files and directories
    readme_assets,     \* the files os.walk finds under randovania-readme
    binary_data,       \* binary_data/prime2.bin has been exported
    release_zip,       \* dist/<zip_folder>.zip: whether it exists, and its entries in order
    glob_left,         \* paths the loop of line 25 has not reached
    walk_left,         \* files the loops of lines 33-34 have not reached
    ran,               \* the steps of the script that ran, in order
    failed,            \* the steps that failed
    kpc,               \* position of the script
    \* ---- TrackerWindow --------------------------------------------------
    layout_configuration, \* the configuration the windows of the process are built for
    _actions,          \* TrackerWindow._actions, the list object of the class
    _collected_pickups,\* TrackerWindow._collected_pickups, the dict object of the class
    windows,           \* window -> it is constructed, its undo button is enabled
    reach_state,       \* the state the last recompute handed to the reach query
    nodes_in_reach,    \* update_locations_tree_for_reachable_nodes.nodes_in_reach
    last,              \* the last handler that ran: which, of which window, how it ended
    \* ---- actions_with_reach --------------------------------------------
    candidate_nodes,   \* the nodes actions_with_reach is called with, in order
    state_resources,   \* the resources the state holds
    satisfied_for,     \* nodes whose additional requirement the state satisfies
    actions,           \* the list actions_with_reach returns
    lpc,               \* position of the actions_with_reach call
    \* ---- GamePatches ---------------------------------------------------
    dicts,             \* the pickup_assignment dict objects, by reference
    overlays,          \* the GamePatches objects constructed so far
    parent,            \* overlay -> the overlay it was derived from, 0 for none
    receiver,          \* self of the running call
    created,           \* overlay -> its field values when it was constructed
    result,            \* the overlay the call returned, 0 for none
    method,            \* the mutator called
    batch,             \* new_pickups / assignment.items() of the running call
    done,              \* pairs of the batch the loop has been through
    new_pickup_assignment, \* assign_new_pickups.new_pickup_assignment, a reference
    gpc,               \* position of the mutator call
    \* ---- subprocess progress protocol -------------------------------
    output,            \* everything the process writes to its output pipe
    stream,            \* output of the process not yet read (sequence of characters)
    finish_string,     \* the finish sentinel _run_with_args was called with
    finished_updates,  \* _run_with_args.finished_updates
    statusLog,         \* the lines status_update received, in order
    lineLog,           \* the lines read_callback received (and printed), in order
    written,           \* _write_data has written the input payload
    exitCode,          \* exit status of the process, -1 while it runs
    raised,            \* _run_with_args raised RuntimeError
    rpc,               \* position of the _run_with_args call
    \* ---- apply_layout and the files it works on -----------------------
    live,              \* game_root/files/<pak>: the content of each archive
    backup,            \* backup_files_path/mp2_paks/<pak>: content, or ABSENT
    backupDir,         \* backup_files_path/mp2_paks is a directory
    marker,            \* game_root/files/menu_mod.txt exists
    jsonFile,          \* game_root/files/randovania.json exists
    valid,             \* validate_game_files_path accepts game_root/files
    menu_mod,          \* patcher_configuration.menu_mod of the running call
    start,             \* the files as the running call found them
    restored,          \* paks reported "Restoring ... from backup" in this call
    backedUp,          \* paks reported "Backing up ..." in this call
    wrote,             \* files this call has written
    invoked,           \* external tools this call has invoked, in order
    emitted,           \* invoked tools whose output held their finish sentinel
    apc,               \* position of the apply_layout call
    \* ---- _calculate_indices -------------------------------------------
    pickup_database,   \* the pickup database read for the layout's game data
    pickup_assignment, \* description.patches.pickup_assignment
    indices,           \* the list _calculate_indices returns
    ipc,               \* position of the _calculate_indices call
    \* ---- try_randomize_elevators --------------------------------------
    echoes_elevators,  \* the elevator database the shuffle deep-copies
    connect_sets_destination, \* Elevator.connect_to also rewrites destination_area
    connected_elevator,\* elevator -> its connected elevator, 0 for None
    destination_area,  \* elevator -> its destination_area
    elevator_list,     \* the work list of Phase 1
    elevators_by_world,\* world number -> its elevators still to be paired
    list3,             \* the elevators the validation has not visited
    celevator_list3,   \* the validation's current layer
    elevator_connection, \* the mapping elevator_connections_for_seed_number builds
    randomizer,        \* how many values have been drawn from the random source
    calls,             \* how many try_randomize_elevators calls are on the stack
    made_in,           \* elevator -> the call that connected it, 0 for none
    epc                \* position of the try_randomize_elevators call

runVars == <<output, stream, finish_string, finished_updates, statusLog, lineLog,
             written, exitCode, raised, rpc>>

applyVars == <<live, backup, backupDir, marker, jsonFile, valid, menu_mod, start,
               restored, backedUp, wrote, invoked, emitted, apc>>

idxVars == <<pickup_database, pickup_assignment, indices, ipc>>

elevVars == <<echoes_elevators, connect_sets_destination, connected_elevator,
              destination_area, elevator_list, elevators_by_world, list3,
              celevator_list3, elevator_connection, randomizer, calls, made_in, epc>>

patchVars == <<dicts, overlays, parent, receiver, created, result, method, batch,
               done, new_pickup_assignment, gpc>>

logicVars == <<candidate_nodes, state_resources, satisfied_for, actions, lpc>>

trackerVars == <<layout_configuration, _actions, _collected_pickups, windows,
                 reach_state, nodes_in_reach, last>>

releaseVars == <<package_folder, readme_assets, binary_data, release_zip, glob_left,
                 walk_left, ran, failed, kpc>>

notRunVars == <<applyVars, idxVars, elevVars, patchVars, logicVars, trackerVars, releaseVars>>
notApplyVars == <<runVars, idxVars, elevVars, patchVars, logicVars, trackerVars, releaseVars>>
notIdxVars == <<runVars, applyVars, elevVars, patchVars, logicVars, trackerVars, releaseVars>>
notElevVars == <<runVars, applyVars, idxVars, patchVars, logicVars, trackerVars, releaseVars>>

notPatchVars == <<runVars, applyVars, idxVars, elevVars, logicVars, trackerVars, releaseVars>>

notLogicVars == <<runVars, applyVars, idxVars, elevVars, patchVars, trackerVars, releaseVars>>

notTrackerVars == <<runVars, applyVars, idxVars, elevVars, patchVars, logicVars, releaseVars>>

notReleaseVars == <<runVars, applyVars, idxVars, elevVars, patchVars, logicVars, trackerVars>>

vars == <<runVars, applyVars, idxVars, elevVars, patchVars, logicVars, trackerVars, releaseVars>>

(***************************************************************************)
(* Characters and strings.  A string is a sequence of one-character        *)
(* strings; "R" stands for the text "Randomized!", "D" for "Done!".        *)
(***************************************************************************)
CR == "\r"
LF == "\n"
SP == " "
Alphabet == {"R", "D", SP, CR, LF}
Whitespace == {SP, CR, LF}

RANDOMIZED == <<"R">>
DONE == <<"D">>

MaxStream == 5

StringsUpTo(n) == UNION {[1..k -> Alphabet] : k \in 0..n}

\* str.strip(): leading and trailing whitespace removed.
RECURSIVE LStrip(_)
LStrip(s) == IF s # <<>> /\ Head(s) \in Whitespace THEN LStrip(Tail(s)) ELSE s

RECURSIVE RStrip(_)
RStrip(s) ==
    IF s # <<>> /\ s[Len(s)] \in Whitespace
    THEN RStrip(SubSeq(s, 1, Len(s) - 1))
    ELSE s

Strip(s) == RStrip(LStrip(s))

\* re.split(r"[\r\n]", s): the pieces between the separators, empty ones kept.
RECURSIVE SplitFrom(_, _)
SplitFrom(s, cur) ==
    IF s = <<>> THEN <<cur>>
    ELSE IF Head(s) \in {CR, LF} THEN <<cur>> \o SplitFrom(Tail(s), <<>>)
    ELSE SplitFrom(Tail(s), Append(cur, Head(s)))

ReSplit(s) == SplitFrom(s, <<>>)

\* StreamReader.readuntil(b"\r"): the data through the first "\r"; at end of
\* stream the IncompleteReadError's partial, which is all that is left.
RECURSIVE FirstCR(_, _)
FirstCR(s, i) ==
    IF i > Len(s) THEN 0
    ELSE IF s[i] = CR THEN i
    ELSE FirstCR(s, i + 1)

ReadUntil(s) ==
    LET i == FirstCR(s, 1)
    IN  IF i = 0 THEN [line |-> s, rest |-> <<>>]
        ELSE [line |-> SubSeq(s, 1, i), rest |-> SubSeq(s, i + 1, Len(s))]

\* The lines _read_data hands to read_callback for one chunk.
ChunkLines(line) == SelectSeq(ReSplit(Strip(line)), LAMBDA x : x # <<>>)

\* Every line _read_data dispatches for the text s, chunk after chunk.
RECURSIVE DispatchedLines(_)
DispatchedLines(s) ==
    IF s = <<>> THEN <<>>
    ELSE LET r == ReadUntil(s) IN ChunkLines(r.line) \o DispatchedLines(r.rest)

HasLine(lines, l) == \E i \in 1..Len(lines) : lines[i] = l

\* _run_with_args.read_callback on the closure state
\* [finished |-> finished_updates, status |-> lines given to status_update,
\*  printed |-> lines printed].
ReadCallbackKeepsForwarding(st, line, finish) ==
    [finished |-> line = finish,
     status   |-> Append(st.status, line),
     printed  |-> Append(st.printed, line)]

ReadCallback(st, line, finish) ==
    IF ~st.finished
    THEN [finished |-> line = finish,
          status   |-> Append(st.status, line),
          printed  |-> Append(st.printed, line)]
    ELSE [st EXCEPT !.printed = Append(@, line)]

RECURSIVE Dispatch(_, _, _)
Dispatch(st, lines, finish) ==
    IF lines = <<>> THEN st
    ELSE Dispatch(ReadCallback(st, Head(lines), finish), Tail(lines), finish)

(***************************************************************************)
(* The files apply_layout works on.                                        *)
(***************************************************************************)
ECHOES_PAKS ==
    <<"MiscData.pak", "Metroid1.pak", "Metroid2.pak", "Metroid3.pak",
      "Metroid4.pak", "Metroid5.pak">>

EchoesPakSet == {ECHOES_PAKS[i] : i \in 1..Len(ECHOES_PAKS)}

\* The *.pak names of the model: the six fixed archives and one more archive
\* of the game, which glob("**/*.pak") finds in a backup folder as well.
AllPaks == EchoesPakSet \cup {"FrontEnd.pak"}

\* What an archive holds: the original data, the randomizer's output, the
\* menu mod's output.
Versions == {"orig", "rand", "menu"}
ABSENT == "absent"

RANDOMIZER_EXE == "Randomizer.exe"
MENU_MOD_EXE == "EchoesMenu.exe"
MENU_MOD_TXT == "menu_mod.txt"
RANDOVANIA_JSON == "randovania.json"

Snapshot ==
    [live |-> live, backup |-> backup, backupDir |-> backupDir,
     marker |-> marker, jsonFile |-> jsonFile]

\* No apply_layout call is or was running.
ApplyIdle ==
    /\ live = [p \in AllPaks |-> "orig"]
    /\ backup = [p \in AllPaks |-> ABSENT]
    /\ backupDir = FALSE
    /\ marker = FALSE
    /\ jsonFile = FALSE
    /\ valid = TRUE
    /\ menu_mod = FALSE
    /\ start = Snapshot
    /\ restored = {}
    /\ backedUp = {}
    /\ wrote = {}
    /\ invoked = <<>>
    /\ emitted = {}
    /\ apc = "idle"

(***************************************************************************)
(* The pickup database and _calculate_indices.                             *)
(***************************************************************************)
USELESS_PICKUP_NAME == "Energy Transfer Module"

\* The pickups of the model's databases.
PickupNames == {USELESS_PICKUP_NAME, "Missile Expansion", "Dark Suit"}

MaxPickups == 3

\* A pickup database: total_pickup_count slots, numbered from 0, and the
\* original index of every pickup.
PickupDatabases ==
    UNION {[total_pickup_count : {n}, original_index : [PickupNames -> 0..(n - 1)]]
             : n \in 1..MaxPickups}

\* A pickup assignment: some of the slots, each with a pickup.
PartialMaps(keys, values) == UNION {[d -> values] : d \in SUBSET keys}

EmptyMap == [k \in {} |-> 0]

\* No _calculate_indices call is followed.
IdxIdle ==
    /\ pickup_database =
          [total_pickup_count |-> 1, original_index |-> [p \in PickupNames |-> 0]]
    /\ pickup_assignment = EmptyMap
    /\ indices = EmptyMap
    /\ ipc = "idle"

(***************************************************************************)
(* Elevators.  An elevator is a number 1..n, its place in the database;     *)
(* each elevator stands in an area of its own.  The Elevator class and the *)
(* database are not part of the sources at hand: a database gives every    *)
(* elevator a world number and a destination area, the area of the         *)
(* elevator it leads to in the unmodified game.                            *)
(***************************************************************************)
MaxPairs == 2

\* The try_randomize_elevators calls followed: the first and its retries.
MaxCalls == 2

NONE == 0

Elevators(db) == 1..db.count

\* elevator.area_asset_id
AreaOf(e) == e

SeqMax(f, n) == CHOOSE m \in {f[i] : i \in 1..n} : \A i \in 1..n : f[i] <= m

\* World numbers matter to the shuffle only by equality and by the order in
\* which they first appear in the database, so the databases of the model
\* number their worlds 1, 2, ... in that order.
WorldNumberings(n) ==
    {w \in [1..n -> 1..n] :
        /\ w[1] = 1
        /\ \A i \in 2..n : w[i] <= SeqMax(w, i - 1) + 1}

\* The links of the unmodified game: elevators lead to each other in pairs; in
\* a database with an odd number of elevators one is left over and leads to
\* its own area.
VanillaLinks(n) ==
    {f \in [1..n -> 1..n] :
        /\ \A e \in 1..n : f[f[e]] = e
        /\ Cardinality({e \in 1..n : f[e] = e}) = n % 2}

ElevatorDatabases ==
    UNION {[count : {n}, world_number : WorldNumberings(n), vanilla : VanillaLinks(n)]
             : n \in 2..(2 * MaxPairs)}

\* copy.deepcopy(echoes_elevators): no elevator connected, every destination
\* the one of the database.
FreshDestinations(db) == [e \in Elevators(db) |-> AreaOf(db.vanilla[e])]
FreshConnections(db) == [e \in Elevators(db) |-> NONE]

\* elevator.instance_id: every elevator of the database has its own.
InstanceId(e) == <<"instance", e>>

\* elevator.world_asset_id: the asset id of the world the elevator stands in.
WorldAssetId(db, e) == <<"world", db.world_number[e]>>

\* AreaLocation(world_asset_id, area_asset_id)
AreaLocation(world_asset_id, area_asset_id) ==
    [world_asset_id |-> world_asset_id, area_asset_id |-> area_asset_id]

\* The range of randomizer.next_with_max(n).
NextWithMax(n) == 0..n

\* No try_randomize_elevators call is followed.
ElevIdle ==
    /\ echoes_elevators = [count |-> 0, world_number |-> <<>>, vanilla |-> <<>>]
    /\ connect_sets_destination = FALSE
    /\ connected_elevator = <<>>
    /\ destination_area = <<>>
    /\ elevator_list = <<>>
    /\ elevators_by_world = <<>>
    /\ list3 = <<>>
    /\ celevator_list3 = <<>>
    /\ elevator_connection = <<>>
    /\ randomizer = 0
    /\ calls = 0
    /\ made_in = <<>>
    /\ epc = "idle"

(***************************************************************************)
(* GamePatches (randovania/game_description/game_patches.py): a frozen      *)
(* dataclass whose pickup_assignment is a dict, an object the overlays      *)
(* refer to.  Pickup indices and pickup entries are drawn from small sets.  *)
(***************************************************************************)
PickupIndices == {"i0", "i1"}
PickupEntries == {"Missile", "Beam"}
StartingLocations == {"Landing Site", "Hive Access"}
DefaultStartingLocation == "Landing Site"
MaxBatch == 2
MaxOverlays == 2

\* The value of a pickup_assignment: a mapping from some indices to entries.
PickupAssignments ==
    UNION {[ixs -> PickupEntries] : ixs \in SUBSET PickupIndices}

RECURSIVE SeqsUpTo(_, _)
SeqsUpTo(S, n) ==
    IF n = 0 THEN {<<>>}
    ELSE LET shorter == SeqsUpTo(S, n - 1)
         IN  shorter \cup {Append(q, x) : q \in {r \in shorter : Len(r) = n - 1}, x \in S}

\* The (index, pickup) pairs a caller can hand to assign_new_pickups.
Batches == SeqsUpTo(PickupIndices \X PickupEntries, MaxBatch)

\* No GamePatches is constructed.
PatchesIdle ==
    /\ dicts = <<>>
    /\ overlays = <<>>
    /\ parent = <<>>
    /\ receiver = 0
    /\ created = <<>>
    /\ result = 0
    /\ method = "none"
    /\ batch = <<>>
    /\ done = 0
    /\ new_pickup_assignment = 0
    /\ gpc = "idle"

(***************************************************************************)
(* The world graph nodes (randovania/resolver/node.py) and the inputs of   *)
(* actions_with_reach: a node is its kind and its name.                    *)
(***************************************************************************)
NodeKinds == {"GenericNode", "DockNode", "TeleporterNode", "PickupNode", "EventNode"}

Nodes ==
    [kind : NodeKinds \ {"EventNode"}, name : {"a"}]
        \cup [kind : {"EventNode"}, name : {"a", "b"}]

\* is_resource_node
IsResourceNode(node) == node.kind \in {"PickupNode", "EventNode"}

\* PickupNode.resource, EventNode.resource: the pickup index of a pickup
\* node, the event the database holds for the event index of an event node.
Resource(node) ==
    IF node.kind = "PickupNode" THEN <<"PickupIndex", node.name>>
    ELSE <<"Event", node.name>>

ResourceNodes == {node \in Nodes : IsResourceNode(node)}

MaxNodes == 3

\* No actions_with_reach call is followed.
LogicIdle ==
    /\ candidate_nodes = <<>>
    /\ state_resources = {}
    /\ satisfied_for = {}
    /\ actions = <<>>
    /\ lpc = "idle"

(***************************************************************************)
(* The tracker window (randovania/gui/tracker_window.py) over a small game: *)
(* three nodes, three pickups, and the states the solver can start from.     *)
(***************************************************************************)
Windows == {"w1", "w2"}
MaxHistory == 3
MaxQuantity == 2

Spawn == [kind |-> "GenericNode", name |-> "a"]
Gate == [kind |-> "DockNode", name |-> "a"]
Boss == [kind |-> "EventNode", name |-> "a"]

\* game_description.world_list.all_nodes
AllNodes == {Spawn, Gate, Boss}

Missile == <<"Item", "Missile">>
Visor == <<"Item", "Visor">>

ItemResources == {Missile, Visor}

Resources == ItemResources \cup {Resource(node) : node \in {Boss}}

NoGain == [r \in Resources |-> 0]

Gain(resource, amount) == [r \in Resources |-> IF r = resource THEN amount ELSE 0]

\* game_description.pickup_database: the category of each pickup, its original
\* quantity and its resource gain.
PickupDatabase ==
    [pickups |-> {"Missile Expansion", "Beam Ammo Expansion", "Dark Visor"},
     item_category |-> [p \in {"Missile Expansion", "Beam Ammo Expansion", "Dark Visor"} |->
                          IF p = "Dark Visor" THEN "major" ELSE "expansion"],
     original_quantity |-> [p \in {"Missile Expansion", "Beam Ammo Expansion", "Dark Visor"} |->
                          IF p = "Missile Expansion" THEN MaxQuantity ELSE 1],
     resource_gain |-> [p \in {"Missile Expansion", "Beam Ammo Expansion", "Dark Visor"} |->
                          IF p = "Dark Visor" THEN Gain(Visor, 1)
                          ELSE IF p = "Missile Expansion" THEN Gain(Missile, 1)
                          ELSE NoGain]]

\* What a node asks of the resources of a state to be in reach of it.
Requirement(node) ==
    IF node = Gate THEN Gain(Resource(Boss), 1)
    ELSE IF node = Boss THEN Gain(Missile, 2)
    ELSE NoGain

\* logic_bootstrap: the states a configuration can start the solver from.
InitialStates ==
    {[node |-> Spawn, resources |-> NoGain],
     [node |-> Spawn, resources |-> Gain(Resource(Boss), 1)],
     [node |-> Boss, resources |-> NoGain]}

ClosedWindow == [constructed |-> FALSE, undo_enabled |-> FALSE]

\* No tracker window is constructed.
TrackerIdle ==
    /\ layout_configuration = <<>>
    /\ _actions = <<>>
    /\ _collected_pickups = <<>>
    /\ windows = <<>>
    /\ reach_state = <<>>
    /\ nodes_in_reach = {}
    /\ last = <<>>

(***************************************************************************)
(* The release packager (create_windows_release.py).  A path is the         *)
(* sequence of its names; what a directory holds is a set of paths below    *)
(* it, each a file or a directory.                                          *)
(***************************************************************************)
\* line 14
zip_folder == "randovania-VERSION"

File(path) == [path |-> path, is_dir |-> FALSE]
Directory(path) == [path |-> path, is_dir |-> TRUE]

\* What an earlier build left in dist/randovania.
StaleFolders == {{}, {File(<<"old.dll">>)}}

\* What PyInstaller writes to dist/randovania: the executable, alone or with
\* a directory of libraries.
Bundles ==
    {{File(<<"randovania.exe">>)},
     {File(<<"randovania.exe">>), Directory(<<"lib">>), File(<<"lib", "python.dll">>)}}

\* What a bundler that fails can leave of a bundle: some of it, no path
\* without the directory it is in.
PartsOf(bundle) ==
    {part \in SUBSET bundle :
        \A entry \in part :
            Len(entry.path) > 1 =>
                Directory(SubSeq(entry.path, 1, Len(entry.path) - 1)) \in part}

\* The files under randovania-readme, as os.walk joins them.
ReadmeAssets ==
    {{},
     {<<"randovania-readme", "a.png">>},
     {<<"randovania-readme", "a.png">>, <<"randovania-readme", "sub", "b.png">>}}

\* No archive in dist.
NoArchive == [exists |-> FALSE, entries |-> <<>>]

\* The script is not run.
ReleaseIdle ==
    /\ package_folder = {}
    /\ readme_assets = {}
    /\ binary_data = FALSE
    /\ release_zip = NoArchive
    /\ glob_left = {}
    /\ walk_left = {}
    /\ ran = <<>>
    /\ failed = {}
    /\ kpc = "idle"

(***************************************************************************)
(* The subprocess progress protocol, one _run_with_args call.              *)
(***************************************************************************)
\* No _run_with_args call is followed step by step.
RunIdle ==
    /\ output = <<>>
    /\ stream = <<>>
    /\ finish_string = RANDOMIZED
    /\ finished_updates = FALSE
    /\ statusLog = <<>>
    /\ lineLog = <<>>
    /\ written = FALSE
    /\ exitCode = -1
    /\ raised = FALSE
    /\ rpc = "idle"

RunInit ==
    /\ ReleaseIdle
    /\ TrackerIdle
    /\ LogicIdle
    /\ PatchesIdle
    /\ output \in StringsUpTo(MaxStream)
    /\ stream = output
    /\ finish_string \in {RANDOMIZED, DONE}
    /\ finished_updates = FALSE
    /\ statusLog = <<>>
    /\ lineLog = <<>>
    /\ written = FALSE
    /\ exitCode = -1
    /\ raised = FALSE
    /\ rpc = "io"
    /\ ApplyIdle
    /\ IdxIdle
    /\ ElevIdle

\* _write_data: the (empty) input payload is written.
WriteData ==
    /\ rpc = "io"
    /\ ~written
    /\ written' = TRUE
    /\ UNCHANGED <<output, stream, finish_string, finished_updates, statusLog, lineLog,
                   exitCode, raised, rpc, notRunVars>>

\* _read_data, one iteration that got data.
ReadChunk ==
    /\ rpc = "io"
    /\ stream # <<>>
    /\ LET r  == ReadUntil(stream)
           st == Dispatch([finished |-> finished_updates, status |-> statusLog,
                           printed |-> lineLog],
                          ChunkLines(r.line), finish_string)
       IN  /\ stream' = r.rest
           /\ finished_updates' = st.finished
           /\ statusLog' = st.status
           /\ lineLog' = st.printed
    /\ UNCHANGED <<output, finish_string, written, exitCode, raised, rpc, notRunVars>>

\* _read_data reads nothing more and breaks; both tasks done, the process is
\* waited for and exits with some status.
ExitCodes == {0, 1}

ProcessWait ==
    /\ rpc = "io"
    /\ stream = <<>>
    /\ written
    /\ \E code \in ExitCodes : exitCode' = code
    /\ rpc' = "exited"
    /\ UNCHANGED <<output, stream, finish_string, finished_updates, statusLog, lineLog,
                   written, raised, notRunVars>>

\* _run_with_args after _process_command returned.
RaisesOnExitCode(finished, code) == code # 0

RaisesWithoutSentinel(finished, code) == ~finished

\* A whole _run_with_args call on a process that writes out and exits with
\* code: TRUE when the call raises.
RunWithArgsNeverRaises(out, finish, code) == FALSE

RunWithArgs(out, finish, code) ==
    LET st == Dispatch([finished |-> FALSE, status |-> <<>>, printed |-> <<>>],
                       DispatchedLines(out), finish)
    IN  RaisesWithoutSentinel(st.finished, code)

CheckFinished ==
    /\ rpc = "exited"
    /\ raised' = RaisesWithoutSentinel(finished_updates, exitCode)
    /\ rpc' = "done"
    /\ UNCHANGED <<output, stream, finish_string, finished_updates, statusLog, lineLog,
                   written, exitCode, notRunVars>>

RunNext == WriteData \/ ReadChunk \/ ProcessWait \/ CheckFinished

SpecRun == RunInit /\ [][RunNext]_vars

(***************************************************************************)
(* Properties of the subprocess progress protocol.                         *)
(***************************************************************************)
Consumed == SubSeq(output, 1, Len(output) - Len(stream))

FirstIndex(lines, l) ==
    CHOOSE i \in 1..Len(lines) :
        lines[i] = l /\ \A j \in 1..(i - 1) : lines[j] # l

UpToSentinel(lines, l) ==
    IF HasLine(lines, l) THEN SubSeq(lines, 1, FirstIndex(lines, l)) ELSE lines

\* C1: _run_with_args raises, and only once the process has exited, exactly
\* when no dispatched line equals the finish sentinel, whatever the exit code.
C1_FailsIffNoSentinel ==
    /\ raised => rpc = "done" /\ exitCode \in ExitCodes
    /\ rpc = "done" =>
          (raised <=> ~HasLine(DispatchedLines(output), finish_string))

\* A run that exits with status 0, printed lines, none of them the sentinel.
C1_Witness ==
    /\ rpc = "done" /\ exitCode = 0 /\ raised
    /\ lineLog # <<>>

\* C2: status_update receives exactly the dispatched lines through the first
\* sentinel line, in order; read_callback itself receives every line.
C2_ForwardedUpToSentinel ==
    /\ lineLog = DispatchedLines(Consumed)
    /\ statusLog = UpToSentinel(lineLog, finish_string)

\* Lines arrived after the sentinel and were printed but not forwarded.
C2_Witness ==
    /\ rpc = "done"
    /\ HasLine(statusLog, finish_string)
    /\ Len(lineLog) > Len(statusLog)
    /\ Len(statusLog) > 1

(***************************************************************************)
(* apply_layout.  One action per step of the call; the external tools are  *)
(* whole _run_with_args calls on a process whose output, exit status and   *)
(* effect on the archives are chosen freely.                               *)
(***************************************************************************)
MaxToolStream == 1

\* The files before the first call: any content of the game folder and of
\* the backup folder.
ApplyInit ==
    /\ ReleaseIdle
    /\ TrackerIdle
    /\ LogicIdle
    /\ PatchesIdle
    /\ RunIdle
    /\ IdxIdle
    /\ ElevIdle
    /\ \E lv \in Versions : live = [p \in AllPaks |-> lv]
    /\ backupDir \in BOOLEAN
    /\ \E bv \in {"orig", "menu"}, have \in SUBSET AllPaks :
          backup = [p \in AllPaks |->
                        IF backupDir /\ p \in have THEN bv ELSE ABSENT]
    /\ marker \in BOOLEAN
    /\ jsonFile = FALSE
    /\ valid = TRUE
    /\ menu_mod = FALSE
    /\ start = Snapshot
    /\ restored = {}
    /\ backedUp = {}
    /\ wrote = {}
    /\ invoked = <<>>
    /\ emitted = {}
    /\ apc = "idle"

\* _base_args: validate_game_files_path raises on an invalid folder.
BaseArgsSkipsValidation(ok) == "ensure"

BaseArgs(ok) == IF ok THEN "ensure" ELSE "failed"

\* apply_layout is called (again): lines 196-200.
StartApply ==
    /\ apc \in {"idle", "done", "failed"}
    /\ \E ok \in BOOLEAN :
          /\ valid' = ok
          /\ apc' = BaseArgs(ok)
    /\ menu_mod' \in BOOLEAN
    /\ start' = Snapshot
    /\ restored' = {}
    /\ backedUp' = {}
    /\ wrote' = {}
    /\ invoked' = <<>>
    /\ emitted' = {}
    /\ UNCHANGED <<live, backup, backupDir, marker, jsonFile, notApplyVars>>

\* _ensure_no_menu_mod
MenuModMarked(mk, dir) == mk

MenuModApplied(mk, dir) == mk /\ dir

EnsureNoMenuModFiles(l, b, dir, mk) ==
    IF MenuModApplied(mk, dir)
    THEN [live     |-> [p \in AllPaks |-> IF b[p] # ABSENT THEN b[p] ELSE l[p]],
          restored |-> {p \in AllPaks : b[p] # ABSENT},
          marker   |-> FALSE]
    ELSE [live |-> l, restored |-> {}, marker |-> mk]

EnsureNoMenuMod ==
    /\ apc = "ensure"
    /\ LET r == EnsureNoMenuModFiles(live, backup, backupDir, marker)
       IN  /\ live' = r.live
           /\ restored' = r.restored
           /\ marker' = r.marker
    /\ apc' = "backup"
    /\ UNCHANGED <<backup, backupDir, jsonFile, valid, menu_mod, start, backedUp,
                   wrote, invoked, emitted, notApplyVars>>

\* _create_pak_backups
NeedsBackupAlways(b, pak) == TRUE

NeedsBackup(b, pak) == b[pak] = ABSENT

RECURSIVE BackupFrom(_, _, _, _)
BackupFrom(i, l, b, copied) ==
    IF i > Len(ECHOES_PAKS) THEN [backup |-> b, copied |-> copied]
    ELSE LET pak == ECHOES_PAKS[i]
         IN  IF NeedsBackup(b, pak)
             THEN BackupFrom(i + 1, l, [b EXCEPT ![pak] = l[pak]], copied \cup {pak})
             ELSE BackupFrom(i + 1, l, b, copied)

CreatePakBackupsAfresh(l, b) == BackupFrom(1, l, [p \in AllPaks |-> ABSENT], {})

\* lines 144-152: mkdir(exist_ok=True) keeps what the folder holds.
CreatePakBackupsFiles(l, b) == BackupFrom(1, l, b, {})

CreatePakBackups ==
    /\ apc = "backup"
    /\ backupDir' = TRUE
    /\ LET r == CreatePakBackupsFiles(live, backup)
       IN  /\ backup' = r.backup
           /\ backedUp' = r.copied
    /\ apc' = "save"
    /\ UNCHANGED <<live, marker, jsonFile, valid, menu_mod, start, restored,
                   wrote, invoked, emitted, notApplyVars>>

\* lines 205-221: the arguments are built and description.save_to_file
\* writes randovania.json.
SaveDescription ==
    /\ apc = "save"
    /\ jsonFile' = TRUE
    /\ wrote' = wrote \cup {RANDOVANIA_JSON}
    /\ apc' = "randomizer"
    /\ UNCHANGED <<live, backup, backupDir, marker, valid, menu_mod, start,
                   restored, backedUp, invoked, emitted, notApplyVars>>

\* What a tool may leave in the archives: untouched, or its output.
ToolEffect(l, touches, v) == IF touches THEN [p \in AllPaks |-> v] ELSE l

EmittedBy(tool, out, finish) ==
    IF HasLine(DispatchedLines(out), finish) THEN {tool} ELSE {}

\* line 222: _run_with_args(args, "Randomized!", status_update), then line 224.
RunRandomizer ==
    /\ apc = "randomizer"
    /\ \E out \in StringsUpTo(MaxToolStream), code \in ExitCodes, touches \in BOOLEAN :
          /\ invoked' = Append(invoked, RANDOMIZER_EXE)
          /\ emitted' = emitted \cup EmittedBy(RANDOMIZER_EXE, out, RANDOMIZED)
          /\ live' = ToolEffect(live, touches, "rand")
          /\ apc' = IF RunWithArgs(out, RANDOMIZED, code) THEN "failed"
                    ELSE IF menu_mod THEN "menu" ELSE "done"
    /\ UNCHANGED <<backup, backupDir, marker, jsonFile, valid, menu_mod, start,
                   restored, backedUp, wrote, notApplyVars>>

\* _add_menu_mod_to_files
AddMenuModToFiles ==
    /\ apc = "menu"
    /\ \E out \in StringsUpTo(MaxToolStream), code \in ExitCodes, touches \in BOOLEAN :
          /\ invoked' = Append(invoked, MENU_MOD_EXE)
          /\ emitted' = emitted \cup EmittedBy(MENU_MOD_EXE, out, DONE)
          /\ live' = ToolEffect(live, touches, "menu")
          /\ IF RunWithArgs(out, DONE, code)
             THEN /\ apc' = "failed"
                  /\ UNCHANGED <<marker, wrote>>
             ELSE /\ apc' = "done"
                  /\ marker' = TRUE
                  /\ wrote' = wrote \cup {MENU_MOD_TXT}
    /\ UNCHANGED <<backup, backupDir, jsonFile, valid, menu_mod, start,
                   restored, backedUp, notApplyVars>>

ApplyNext ==
    \/ StartApply
    \/ EnsureNoMenuMod
    \/ CreatePakBackups
    \/ SaveDescription
    \/ RunRandomizer
    \/ AddMenuModToFiles

SpecApply == ApplyInit /\ [][ApplyNext]_vars

(***************************************************************************)
(* Properties of apply_layout.                                             *)
(***************************************************************************)
InvokedSet == {invoked[i] : i \in 1..Len(invoked)}

BackedUpAtStart == {p \in AllPaks : start.backup[p] # ABSENT}

\* C3: when the game-files path fails validation the call fails at once and
\* has done nothing: no archive restored or backed up, the marker as it was,
\* randovania.json not written, no tool invoked.
C3_InvalidFilesNoPatching ==
    (apc # "idle" /\ ~valid) =>
        /\ apc = "failed"
        /\ Snapshot = start
        /\ restored = {} /\ backedUp = {}
        /\ wrote = {}
        /\ invoked = <<>>

\* An invalid folder with a marker and backups that a valid call would restore.
C3_Witness ==
    /\ apc = "failed" /\ ~valid
    /\ marker /\ backupDir
    /\ \E p \in AllPaks : backup[p] \notin {ABSENT, live[p]}

\* C4: between the restore step and the invocation of the randomizer, a call
\* that found the marker and the backup folder has copied every backed-up pak
\* over its live counterpart and deleted the marker; a call that found either
\* missing has overwritten no archive and left the marker as it was.  No tool
\* is invoked before that.
C4_MenuModUndoneBeforePatching ==
    /\ apc \in {"ensure", "backup", "save", "randomizer"} => invoked = <<>>
    /\ apc \in {"backup", "save", "randomizer"} =>
          IF start.marker /\ start.backupDir
          THEN /\ \A p \in AllPaks :
                     live[p] = IF p \in BackedUpAtStart THEN start.backup[p]
                               ELSE start.live[p]
               /\ restored = BackedUpAtStart
               /\ ~marker
          ELSE /\ live = start.live
               /\ restored = {}
               /\ marker = start.marker

\* About to invoke the randomizer after a restore that changed an archive.
C4_Witness ==
    /\ apc = "randomizer"
    /\ start.marker /\ start.backupDir
    /\ \E p \in AllPaks : start.backup[p] \notin {ABSENT, start.live[p]}
    /\ \E p \in AllPaks : start.backup[p] = ABSENT

\* C5: _create_pak_backups copies each of the six archives exactly when it
\* has no backup yet, leaves every existing backup as it was, and a second
\* run right after the first copies nothing and changes nothing.
C5_BackupsIdempotent ==
    apc \in {"save", "randomizer"} =>
        /\ backupDir
        /\ \A p \in EchoesPakSet :
              /\ p \in backedUp <=> start.backup[p] = ABSENT
              /\ backup[p] = IF start.backup[p] = ABSENT THEN live[p]
                             ELSE start.backup[p]
        /\ \A p \in AllPaks \ EchoesPakSet :
              p \notin backedUp /\ backup[p] = start.backup[p]
        /\ LET again == CreatePakBackupsFiles(live, backup)
           IN  again.backup = backup /\ again.copied = {}

\* Some archives were copied, others had a backup that differs from the live
\* file and was kept.
C5_Witness ==
    /\ apc = "save"
    /\ backedUp # {}
    /\ \E p \in EchoesPakSet : start.backup[p] \notin {ABSENT, live[p]}

\* C6: menu_mod.txt is written only in a call that asked for the menu mod,
\* whose randomizer emitted "Randomized!" and whose menu-mod tool, invoked
\* after it, emitted "Done!"; a randomizer without its sentinel ends the
\* call before the menu-mod tool, and a tool without its sentinel ends it
\* without the marker written.
C6_MarkerOnlyAfterBothSentinels ==
    /\ MENU_MOD_TXT \in wrote =>
          /\ menu_mod
          /\ invoked = <<RANDOMIZER_EXE, MENU_MOD_EXE>>
          /\ emitted = {RANDOMIZER_EXE, MENU_MOD_EXE}
    /\ (RANDOMIZER_EXE \in InvokedSet /\ RANDOMIZER_EXE \notin emitted) =>
          /\ MENU_MOD_EXE \notin InvokedSet
          /\ apc = "failed"
    /\ ~(InvokedSet \subseteq emitted) =>
          /\ MENU_MOD_TXT \notin wrote
          /\ apc = "failed"

\* The marker was written by this call.
C6_Witness ==
    /\ apc = "done"
    /\ MENU_MOD_TXT \in wrote
    /\ ~start.marker /\ marker

(***************************************************************************)
(* _calculate_indices on a database and a pickup assignment.               *)
(***************************************************************************)
IdxInit ==
    /\ ReleaseIdle
    /\ TrackerIdle
    /\ LogicIdle
    /\ PatchesIdle
    /\ RunIdle
    /\ ApplyIdle
    /\ ElevIdle
    /\ pickup_database \in PickupDatabases
    /\ pickup_assignment \in
          PartialMaps(0..(pickup_database.total_pickup_count - 1), PickupNames)
    /\ indices = EmptyMap
    /\ ipc = "called"

\* pickup_database.original_index(pickup).index
OriginalIndex(db, pickup) == db.original_index[pickup]

\* line 175: the list filled with the useless pickup's original index.
FilledWithZero(db) == [k \in 0..(db.total_pickup_count - 1) |-> 0]

FilledWithUseless(db) ==
    [k \in 0..(db.total_pickup_count - 1) |-> OriginalIndex(db, USELESS_PICKUP_NAME)]

\* lines 176-177: the loop over the assignment's items, here by rising index
\* (the keys are distinct, so the order of the items does not matter).
RECURSIVE AssignItems(_, _, _, _)
AssignItems(ind, keys, assignment, db) ==
    IF keys = {} THEN ind
    ELSE LET index == CHOOSE k \in keys : \A j \in keys : k <= j
         IN  AssignItems([ind EXCEPT ![index] = OriginalIndex(db, assignment[index])],
                         keys \ {index}, assignment, db)

CalculateIndicesOf(db, assignment) ==
    AssignItems(FilledWithUseless(db), DOMAIN assignment, assignment, db)

CalculateIndices ==
    /\ ipc = "called"
    /\ indices' = CalculateIndicesOf(pickup_database, pickup_assignment)
    /\ ipc' = "returned"
    /\ UNCHANGED <<pickup_database, pickup_assignment, notIdxVars>>

IdxNext == CalculateIndices

SpecIdx == IdxInit /\ [][IdxNext]_vars

\* C7: the returned list has one entry per slot of the catalog; the entry of
\* an assigned slot is the original index of the pickup assigned to it, the
\* entry of every other slot is the original index of the useless pickup.
C7_IndicesOfAssignment ==
    ipc = "returned" =>
        /\ DOMAIN indices = 0..(pickup_database.total_pickup_count - 1)
        /\ \A k \in DOMAIN indices :
              indices[k] =
                  IF k \in DOMAIN pickup_assignment
                  THEN pickup_database.original_index[pickup_assignment[k]]
                  ELSE pickup_database.original_index[USELESS_PICKUP_NAME]

\* Assigned and unassigned slots, the filler not at index 0, and an assigned
\* pickup that is not the filler.
C7_Witness ==
    /\ ipc = "returned"
    /\ pickup_database.original_index[USELESS_PICKUP_NAME] # 0
    /\ \E k \in DOMAIN indices : k \notin DOMAIN pickup_assignment
    /\ \E k \in DOMAIN pickup_assignment :
          indices[k] # pickup_database.original_index[USELESS_PICKUP_NAME]

(***************************************************************************)
(* try_randomize_elevators.                                                *)
(***************************************************************************)
\* list.remove(x): the list without the first element equal to x.
RECURSIVE ListRemove(_, _)
ListRemove(list, x) ==
    IF list = <<>> THEN <<>>
    ELSE IF Head(list) = x THEN Tail(list)
    ELSE <<Head(list)>> \o ListRemove(Tail(list), x)

InList(list, x) == \E i \in 1..Len(list) : list[i] = x

ElevatorSeq(db) == [i \in 1..db.count |-> i]

\* lines 251-253: the elevators of each world, in database order.
GroupByWorld(db) ==
    [w \in {db.world_number[e] : e \in Elevators(db)} |->
        SelectSeq(ElevatorSeq(db), LAMBDA e : db.world_number[e] = w)]

\* The keys of elevators_by_world in the order the dict holds them: the order
\* in which the worlds first appear in the database.
RECURSIVE FirstAppearances(_, _, _)
FirstAppearances(db, i, seen) ==
    IF i > db.count THEN <<>>
    ELSE IF db.world_number[i] \in seen THEN FirstAppearances(db, i + 1, seen)
    ELSE <<db.world_number[i]>>
             \o FirstAppearances(db, i + 1, seen \cup {db.world_number[i]})

WorldOrder(db) == FirstAppearances(db, 1, {})

\* line 256: max(elevators_by_world.values(), key=len) is the first of the
\* longest lists; here the world that holds it.
FirstNonEmptyWorld(db, by_world) ==
    LET order == WorldOrder(db)
        i == CHOOSE k \in 1..Len(order) :
                 /\ by_world[order[k]] # <<>>
                 /\ \A j \in 1..(k - 1) : by_world[order[j]] = <<>>
    IN  order[i]

SourceWorld(db, by_world) ==
    LET order == WorldOrder(db)
        i == CHOOSE k \in 1..Len(order) :
                 /\ \A j \in 1..Len(order) :
                        Len(by_world[order[j]]) <= Len(by_world[order[k]])
                 /\ \A j \in 1..(k - 1) :
                        Len(by_world[order[j]]) < Len(by_world[order[k]])
    IN  order[i]

\* lines 257-261
AllRemaining(list, source_elevators) == list

TargetElevators(list, source_elevators) ==
    SelectSeq(list, LAMBDA e : ~InList(source_elevators, e))

\* Elevator.connect_to: each of the two becomes the other's connected
\* elevator.
ConnectTo(conn, a, b) == [conn EXCEPT ![a] = b, ![b] = a]

\* What Elevator.connect_to does to destination_area is not in the sources at
\* hand: it leaves it alone, or makes each lead to the other's area.
ConnectDestinations(dest, a, b, sets) ==
    IF sets THEN [dest EXCEPT ![a] = AreaOf(b), ![b] = AreaOf(a)] ELSE dest

ElevInit ==
    /\ ReleaseIdle
    /\ TrackerIdle
    /\ LogicIdle
    /\ PatchesIdle
    /\ RunIdle
    /\ ApplyIdle
    /\ IdxIdle
    /\ echoes_elevators \in ElevatorDatabases
    /\ connect_sets_destination \in BOOLEAN
    /\ connected_elevator = FreshConnections(echoes_elevators)
    /\ destination_area = FreshDestinations(echoes_elevators)
    /\ elevator_list = ElevatorSeq(echoes_elevators)
    /\ elevators_by_world = GroupByWorld(echoes_elevators)
    /\ list3 = <<>>
    /\ celevator_list3 = <<>>
    /\ elevator_connection = <<>>
    /\ randomizer = 0
    /\ calls = 1
    /\ made_in = FreshConnections(echoes_elevators)
    /\ epc = "pairing"

\* line 263: the largest value asked of the randomizer.
MaxIndexIsLength(target_elevators) == Len(target_elevators)

MaxIndex(target_elevators) == Len(target_elevators) - 1

\* lines 255-270, one iteration of the pairing loop.
PairElevators ==
    /\ epc = "pairing"
    /\ elevator_list # <<>>
    /\ LET world == SourceWorld(echoes_elevators, elevators_by_world)
           source_elevators == elevators_by_world[world]
           target_elevators == TargetElevators(elevator_list, source_elevators)
       IN  /\ source_elevators # <<>>
           /\ target_elevators # <<>>
           /\ \E r \in NextWithMax(MaxIndex(target_elevators)) :
                 LET source_elevator == source_elevators[1]
                     target_elevator == target_elevators[r + 1]
                     removed == [elevators_by_world EXCEPT
                                    ![world] = ListRemove(@, source_elevator)]
                 IN  /\ r + 1 \in DOMAIN target_elevators
                     /\ connected_elevator' =
                            ConnectTo(connected_elevator, source_elevator, target_elevator)
                     /\ destination_area' =
                            ConnectDestinations(destination_area, source_elevator,
                                                target_elevator, connect_sets_destination)
                     /\ elevators_by_world' =
                            [removed EXCEPT
                                ![echoes_elevators.world_number[target_elevator]] =
                                    ListRemove(@, target_elevator)]
                     /\ elevator_list' =
                            ListRemove(ListRemove(elevator_list, source_elevator),
                                       target_elevator)
                     /\ made_in' = [made_in EXCEPT ![source_elevator] = calls,
                                                   ![target_elevator] = calls]
    /\ randomizer' = randomizer + 1
    /\ UNCHANGED <<echoes_elevators, connect_sets_destination, list3,
                   celevator_list3, epc, elevator_connection, calls, notElevVars>>

\* line 263 with no target left, or with a value drawn that is no index of
\* the targets: indexing the list raises IndexError.
PairingFails ==
    /\ epc = "pairing"
    /\ elevator_list # <<>>
    /\ LET world == SourceWorld(echoes_elevators, elevators_by_world)
           source_elevators == elevators_by_world[world]
           target_elevators == TargetElevators(elevator_list, source_elevators)
       IN  \/ source_elevators = <<>>
           \/ target_elevators = <<>>
           \/ \E r \in NextWithMax(MaxIndex(target_elevators)) :
                  r + 1 \notin DOMAIN target_elevators
    /\ epc' = "raised"
    /\ UNCHANGED <<echoes_elevators, connect_sets_destination, connected_elevator,
                   destination_area, elevator_list, elevators_by_world, list3,
                   celevator_list3, elevator_connection, randomizer, calls, made_in,
                   notElevVars>>

\* lines 273-274
StartValidation ==
    /\ epc = "pairing"
    /\ elevator_list = <<>>
    /\ list3' = ElevatorSeq(echoes_elevators)
    /\ celevator_list3' = <<1>>
    /\ epc' = "validating"
    /\ UNCHANGED <<echoes_elevators, connect_sets_destination, connected_elevator,
                   destination_area, elevator_list, elevators_by_world,
                   elevator_connection, randomizer, calls, made_in,
                   notElevVars>>

\* line 281: celevator1 pulls in celevator2.
MatchesAnyWorld(db, dest, celevator2, celevator1) ==
    \/ db.world_number[celevator2] = db.world_number[celevator2]
    \/ AreaOf(celevator2) = dest[celevator1]

Matches(db, dest, celevator2, celevator1) ==
    \/ db.world_number[celevator2] = db.world_number[celevator1]
    \/ AreaOf(celevator2) = dest[celevator1]

\* lines 276-285: one layer.  For each elevator of the current layer in
\* turn, every elevator left in list3 that it pulls in moves to the new layer.
RECURSIVE Layer(_, _, _, _, _)
Layer(db, dest, frontier, left, list1) ==
    IF frontier = <<>> THEN [celevator_list1 |-> list1, list3 |-> left]
    ELSE LET celevator1 == Head(frontier)
             pulled == SelectSeq(left, LAMBDA c : Matches(db, dest, c, celevator1))
             kept   == SelectSeq(left, LAMBDA c : ~Matches(db, dest, c, celevator1))
         IN  Layer(db, dest, Tail(frontier), kept, list1 \o pulled)

NextLayer == Layer(echoes_elevators, destination_area, celevator_list3, list3, <<>>)

\* line 286: the test on the layer just built.
LayerAlwaysFound(celevator_list1) == TRUE

LayerFound(celevator_list1) == celevator_list1 # <<>>

\* lines 275-287: a layer that found elevators.
ExpandLayer ==
    /\ epc = "validating"
    /\ list3 # <<>>
    /\ LayerFound(NextLayer.celevator_list1)
    /\ list3' = NextLayer.list3
    /\ celevator_list3' = NextLayer.celevator_list1
    /\ UNCHANGED <<echoes_elevators, connect_sets_destination, connected_elevator,
                   destination_area, elevator_list, elevators_by_world, epc,
                   elevator_connection, randomizer, calls, made_in,
                   notElevVars>>

\* What the elevators of the failed attempt leave to the next call: nothing.
\* Line 248 of the new call copies echoes_elevators, which no attempt touches.
KeptConnections(db, connected) == connected

DeepCopyConnections(db, connected) == FreshConnections(db)

\* lines 288-290: a layer that found none while elevators are left: the
\* function calls itself with the randomizer it was given, and the new call
\* starts over on a new copy of the database (lines 248-253).
RetryShuffle ==
    /\ epc = "validating"
    /\ list3 # <<>>
    /\ ~LayerFound(NextLayer.celevator_list1)
    /\ calls < MaxCalls
    /\ calls' = calls + 1
    /\ made_in' = FreshConnections(echoes_elevators)
    /\ connected_elevator' = DeepCopyConnections(echoes_elevators, connected_elevator)
    /\ destination_area' = FreshDestinations(echoes_elevators)
    /\ elevator_list' = ElevatorSeq(echoes_elevators)
    /\ elevators_by_world' = GroupByWorld(echoes_elevators)
    /\ list3' = <<>>
    /\ celevator_list3' = <<>>
    /\ epc' = "pairing"
    /\ UNCHANGED <<echoes_elevators, connect_sets_destination, elevator_connection,
                   randomizer, notElevVars>>

\* line 292
ReturnDatabase ==
    /\ epc = "validating"
    /\ list3 = <<>>
    /\ epc' = "returned"
    /\ UNCHANGED <<echoes_elevators, connect_sets_destination, connected_elevator,
                   destination_area, elevator_list, elevators_by_world, list3,
                   celevator_list3, elevator_connection, randomizer, calls, made_in,
                   notElevVars>>

\* d[k] = v of a Python dict: a new key is added, a present one overwritten.
DictSet(d, k, v) == [x \in DOMAIN d \cup {k} |-> IF x = k THEN v ELSE d[x]]

ConnectionToItself(db, connected, elevator) ==
    AreaLocation(WorldAssetId(db, elevator), AreaOf(elevator))

\* lines 299-302: the location of the elevator this one is connected to.
ConnectionOf(db, connected, elevator) ==
    AreaLocation(WorldAssetId(db, connected[elevator]), AreaOf(connected[elevator]))

\* lines 297-303: the loop over the returned database.
RECURSIVE ElevatorConnections(_, _, _, _)
ElevatorConnections(db, connected, elevators, elevator_connection_so_far) ==
    IF elevators = <<>>
    THEN elevator_connection_so_far
    ELSE ElevatorConnections(db, connected, Tail(elevators),
             DictSet(elevator_connection_so_far, InstanceId(Head(elevators)),
                     ConnectionOf(db, connected, Head(elevators))))

\* lines 295-303, once try_randomize_elevators has returned.
ElevatorConnectionsForSeedNumber ==
    /\ epc = "returned"
    /\ elevator_connection' =
           ElevatorConnections(echoes_elevators, connected_elevator,
                               ElevatorSeq(echoes_elevators), <<>>)
    /\ epc' = "connections"
    /\ UNCHANGED <<echoes_elevators, connect_sets_destination, connected_elevator,
                   destination_area, elevator_list, elevators_by_world, list3,
                   celevator_list3, randomizer, calls, made_in, notElevVars>>

ElevNext ==
    \/ PairElevators
    \/ PairingFails
    \/ StartValidation
    \/ ExpandLayer
    \/ RetryShuffle
    \/ ReturnDatabase
    \/ ElevatorConnectionsForSeedNumber

SpecElev == ElevInit /\ [][ElevNext]_vars

(***************************************************************************)
(* try_randomize_elevators on databases that list their elevators world by *)
(* world, large enough for one attempt to fail and the next to succeed.    *)
(* Two elevators of one world and two worlds of one elevator each are what *)
(* a failed attempt needs, so no world of these has more than two.         *)
(***************************************************************************)
MaxElevators == 6

\* The world numbers of a database that lists its elevators world by world,
\* one or two to a world.
WorldByWorld(n) ==
    {w \in WorldNumberings(n) :
        /\ \A i \in 2..n : w[i - 1] <= w[i]
        /\ \A i \in 3..n : w[i - 2] < w[i]}

\* The links of the unmodified game between elevators that are neighbours in
\* the database, or have one elevator between them.
NearLinks(n) == {f \in VanillaLinks(n) : \A e \in 1..n : f[e] - e \in {-2, -1, 1, 2}}

\* A database with an odd number of elevators never reaches the validation
\* (its last elevator has no target), so these have an even number.
GroupedDatabases ==
    UNION {[count : {n}, world_number : WorldByWorld(n), vanilla : NearLinks(n)]
             : n \in {m \in 2..MaxElevators : m % 2 = 0}}

ShuffleInit ==
    /\ ReleaseIdle
    /\ TrackerIdle
    /\ LogicIdle
    /\ PatchesIdle
    /\ RunIdle
    /\ ApplyIdle
    /\ IdxIdle
    /\ echoes_elevators \in GroupedDatabases
    /\ connect_sets_destination \in BOOLEAN
    /\ connected_elevator = FreshConnections(echoes_elevators)
    /\ destination_area = FreshDestinations(echoes_elevators)
    /\ elevator_list = ElevatorSeq(echoes_elevators)
    /\ elevators_by_world = GroupByWorld(echoes_elevators)
    /\ list3 = <<>>
    /\ celevator_list3 = <<>>
    /\ elevator_connection = <<>>
    /\ randomizer = 0
    /\ calls = 1
    /\ made_in = FreshConnections(echoes_elevators)
    /\ epc = "pairing"

SpecShuffle == ShuffleInit /\ [][ElevNext]_vars

\* The step of lines 288-290: the failed attempt gives way to a new call.
RetryStep == epc = "validating" /\ epc' = "pairing"

\* The state a new call has after lines 248-253.
FromScratch ==
    /\ connected_elevator = FreshConnections(echoes_elevators)
    /\ destination_area = FreshDestinations(echoes_elevators)
    /\ elevator_list = ElevatorSeq(echoes_elevators)
    /\ elevators_by_world = GroupByWorld(echoes_elevators)

\* How many values one attempt that reaches the validation draws.
DrawsPerAttempt == echoes_elevators.count \div 2

\* C21: a failed validation restarts Phase 1 from scratch: the retry starts
\* on a database in which no elevator is connected and continues the random
\* source where the failed attempt left it; every connection of a returned
\* database was made by the call that returned it, and the values drawn by
\* then are those of all the attempts, one after the other.
C21_RetryStartsFromScratch ==
    /\ [][RetryStep => FromScratch' /\ randomizer' = randomizer]_vars
    /\ [](epc = "returned" =>
            /\ \A e \in Elevators(echoes_elevators) :
                   connected_elevator[e] # NONE /\ made_in[e] = calls
            /\ randomizer = calls * DrawsPerAttempt)

\* A database returned by the retry of a failed attempt.
C21_Witness == epc = "returned" /\ calls = 2

(***************************************************************************)
(* Properties of try_randomize_elevators.                                  *)
(***************************************************************************)
AllElevators == Elevators(echoes_elevators)

WorldOf(e) == echoes_elevators.world_number[e]

\* Everything the wavefront reaches from the elevators in S: an elevator is
\* added when it shares its world with one already reached or stands in the
\* destination area of one.
RECURSIVE Reached(_)
Reached(S) ==
    LET more == {c2 \in AllElevators :
                    \E c1 \in S : \/ WorldOf(c2) = WorldOf(c1)
                                  \/ AreaOf(c2) = destination_area[c1]}
    IN  IF more \subseteq S THEN S ELSE Reached(S \cup more)

\* C8: for every returned database the wavefront expansion, started from any
\* single elevator, visits all elevators.
C8_ReturnedIsSingleComponent ==
    epc = "returned" => \A e \in AllElevators : Reached({e}) = AllElevators

\* A returned shuffle of four elevators in three or more worlds whose
\* destinations were rewritten and differ from the unmodified game's.
C8_Witness ==
    /\ epc = "returned"
    /\ connect_sets_destination
    /\ Cardinality(AllElevators) >= 4
    /\ Cardinality({WorldOf(e) : e \in AllElevators}) >= 3
    /\ destination_area # FreshDestinations(echoes_elevators)

\* C9: in every returned database each elevator has exactly one connected
\* elevator, another one, whose connected elevator it is in turn.
C9_SymmetricPerfectMatching ==
    epc = "returned" =>
        \A e \in AllElevators :
            /\ connected_elevator[e] \in AllElevators
            /\ connected_elevator[e] # e
            /\ connected_elevator[connected_elevator[e]] = e

\* A returned pairing of four elevators that is not the unmodified game's.
C9_Witness ==
    /\ epc = "returned"
    /\ Cardinality(AllElevators) >= 4
    /\ \E e \in AllElevators : connected_elevator[e] # echoes_elevators.vanilla[e]

\* The elevators a step took off the work list.
TakenOff == {e \in AllElevators : InList(elevator_list, e) /\ ~InList(elevator_list', e)}

IsLargestGroup(w) ==
    \A v \in DOMAIN elevators_by_world :
        Len(elevators_by_world[v]) <= Len(elevators_by_world[w])

PairingStep == epc = "pairing" /\ epc' = "pairing" /\ elevator_list' # elevator_list

\* C10: every pairing step connects the first elevator of a largest remaining
\* world group to a remaining elevator outside that group, so connected
\* elevators are never of the same world.
C10_SourceFromLargestTargetOutside ==
    /\ [][PairingStep =>
            \E source, target \in AllElevators :
                /\ TakenOff = {source, target}
                /\ IsLargestGroup(WorldOf(source))
                /\ source = Head(elevators_by_world[WorldOf(source)])
                /\ ~InList(elevators_by_world[WorldOf(source)], target)
                /\ InList(elevator_list, target)
                /\ connected_elevator'[source] = target
                /\ connected_elevator'[target] = source]_vars
    /\ [](\A e \in AllElevators :
            connected_elevator[e] # NONE => WorldOf(connected_elevator[e]) # WorldOf(e))

\* After a pairing step in a database of three or more worlds, with elevators
\* still to pair.
C10_Witness ==
    /\ epc = "pairing"
    /\ elevator_list # <<>>
    /\ \E e \in AllElevators : connected_elevator[e] # NONE
    /\ Cardinality({WorldOf(e) : e \in AllElevators}) >= 3

\* The elevator standing in an area (AreaOf is one-to-one).
ElevatorIn(area) == CHOOSE e \in AllElevators : AreaOf(e) = area

\* The Area Location of the destination of an elevator.
DestinationLocation(e) ==
    AreaLocation(WorldAssetId(echoes_elevators, ElevatorIn(destination_area[e])),
                 destination_area[e])

\* C11 as stated: the returned mapping has exactly one entry per elevator
\* instance id, and the entry of an elevator is the Area Location of the
\* destination of the elevator it is paired with.
C11_ValueIsPairedElevatorsDestination ==
    epc = "connections" =>
        /\ DOMAIN elevator_connection = {InstanceId(e) : e \in AllElevators}
        /\ \A e \in AllElevators :
              elevator_connection[InstanceId(e)] =
                  DestinationLocation(connected_elevator[e])

\* C11, amended: the returned mapping has exactly one entry per elevator
\* instance id, and the entry of an elevator is the Area Location (world asset
\* id, area asset id) of the elevator it is paired with.
C11_ValueIsPairedElevatorsLocation ==
    epc = "connections" =>
        /\ DOMAIN elevator_connection = {InstanceId(e) : e \in AllElevators}
        /\ Cardinality(DOMAIN elevator_connection) = echoes_elevators.count
        /\ \A e \in AllElevators :
              elevator_connection[InstanceId(e)] =
                  AreaLocation(WorldAssetId(echoes_elevators, connected_elevator[e]),
                               AreaOf(connected_elevator[e]))

\* A mapping returned for four elevators paired otherwise than in the
\* unmodified game.
C11_Witness ==
    /\ epc = "connections"
    /\ Cardinality(AllElevators) >= 4
    /\ \E e \in AllElevators : connected_elevator[e] # echoes_elevators.vanilla[e]

(***************************************************************************)
(* GamePatches: with_game and the three mutators.  assign_new_pickups is    *)
(* followed one loop iteration at a time.                                   *)
(***************************************************************************)
\* The fields of a GamePatches other than pickup_assignment and
\* starting_location, which no method of the class writes.
OtherFields ==
    {[elevator_connection |-> <<>>, dock_connection |-> <<>>,
      dock_weakness |-> <<>>, extra_initial_items |-> <<>>],
     [elevator_connection |-> <<"connection">>, dock_connection |-> <<"dock">>,
      dock_weakness |-> <<"weakness">>, extra_initial_items |-> <<"item">>]}

GamePatches(pickup_assignment_ref, other, starting_location) ==
    [pickup_assignment |-> pickup_assignment_ref,
     elevator_connection |-> other.elevator_connection,
     dock_connection |-> other.dock_connection,
     dock_weakness |-> other.dock_weakness,
     extra_initial_items |-> other.extra_initial_items,
     starting_location |-> starting_location]

\* The field values of an overlay, its pickup_assignment read through the
\* reference.
Deref(ds, overlay) == [overlay EXCEPT !.pickup_assignment = ds[@]]

PatchesInit ==
    /\ ReleaseIdle
    /\ TrackerIdle
    /\ LogicIdle
    /\ RunIdle
    /\ ApplyIdle
    /\ IdxIdle
    /\ ElevIdle
    /\ \E assignment \in PickupAssignments, other \in OtherFields :
          /\ dicts = <<assignment>>
          /\ overlays = <<GamePatches(1, other, DefaultStartingLocation)>>
          /\ created = <<Deref(dicts, overlays[1])>>
    /\ parent = <<0>>
    /\ receiver = 0
    /\ result = 0
    /\ method = "none"
    /\ batch = <<>>
    /\ done = 0
    /\ new_pickup_assignment = 0
    /\ gpc = "idle"

\* A caller can call a method when no call is running.
CanCall == gpc \in {"idle", "returned", "raised"} /\ Len(overlays) < MaxOverlays

\* lines 26-28: with_game
WithGame ==
    /\ CanCall
    /\ \E location \in StartingLocations :
          LET overlay == GamePatches(Len(dicts) + 1, CHOOSE other \in OtherFields :
                                         other.elevator_connection = <<>>, location)
          IN  /\ dicts' = Append(dicts, <<>>)
              /\ overlays' = Append(overlays, overlay)
              /\ created' = Append(created, Deref(dicts', overlay))
              /\ result' = Len(overlays')
    /\ parent' = Append(parent, 0)
    /\ receiver' = 0
    /\ method' = "with_game"
    /\ batch' = <<>>
    /\ done' = 0
    /\ new_pickup_assignment' = 0
    /\ gpc' = "returned"
    /\ UNCHANGED notPatchVars

SameDict(ds, ref) == [dicts |-> ds, ref |-> ref]

\* line 31: copy.copy(self.pickup_assignment), a new dict with the same items.
CopyDict(ds, ref) == [dicts |-> Append(ds, ds[ref]), ref |-> Len(ds) + 1]

\* lines 30-31: assign_new_pickups up to its loop.
StartAssign(self, new_pickups, name) ==
    /\ CanCall
    /\ LET copy == CopyDict(dicts, overlays[self].pickup_assignment)
       IN  /\ dicts' = copy.dicts
           /\ new_pickup_assignment' = copy.ref
    /\ receiver' = self
    /\ result' = 0
    /\ method' = name
    /\ batch' = new_pickups
    /\ done' = 0
    /\ gpc' = "assigning"
    /\ UNCHANGED <<overlays, parent, created, notPatchVars>>

AssignNewPickups ==
    \E self \in DOMAIN overlays, new_pickups \in Batches :
        StartAssign(self, new_pickups, "assign_new_pickups")

\* assignment.items(): every key of the dict once, in the dict's order.
Items(assignment) ==
    LET pairs == {<<index, assignment[index]>> : index \in DOMAIN assignment}
    IN  {q \in SeqsUpTo(pairs, Cardinality(pairs)) :
            Len(q) = Cardinality(pairs) /\ {q[i] : i \in DOMAIN q} = pairs}

\* lines 39-41
AssignPickupAssignment ==
    \E self \in DOMAIN overlays, assignment \in PickupAssignments :
        \E new_pickups \in Items(assignment) :
            StartAssign(self, new_pickups, "assign_pickup_assignment")

AssertIndexNotInReceiver(ds, self_ref, new_ref, index) == index \notin DOMAIN ds[self_ref]

\* line 34: assert index not in new_pickup_assignment
AssertIndexNotAssigned(ds, self_ref, new_ref, index) == index \notin DOMAIN ds[new_ref]

\* lines 33-35: one iteration of the loop, its assertion passing.
AssignPickup ==
    /\ gpc = "assigning"
    /\ done < Len(batch)
    /\ LET index == batch[done + 1][1]
           pickup == batch[done + 1][2]
       IN  /\ AssertIndexNotAssigned(dicts, overlays[receiver].pickup_assignment,
                                     new_pickup_assignment, index)
           /\ dicts' = [dicts EXCEPT ![new_pickup_assignment] = DictSet(@, index, pickup)]
    /\ done' = done + 1
    /\ UNCHANGED <<overlays, parent, receiver, created, result, method, batch,
                   new_pickup_assignment, gpc, notPatchVars>>

\* A dict no overlay and no running call refers to is gone.
Collected(ds, ovs, ref) ==
    IF ref = Len(ds) /\ \A i \in DOMAIN ovs : ovs[i].pickup_assignment # ref
    THEN SubSeq(ds, 1, Len(ds) - 1)
    ELSE ds

\* line 34: the assertion fails, AssertionError leaves assign_new_pickups.
AssertionFails ==
    /\ gpc = "assigning"
    /\ done < Len(batch)
    /\ ~AssertIndexNotAssigned(dicts, overlays[receiver].pickup_assignment,
                               new_pickup_assignment, batch[done + 1][1])
    /\ dicts' = Collected(dicts, overlays, new_pickup_assignment)
    /\ new_pickup_assignment' = 0
    /\ gpc' = "raised"
    /\ UNCHANGED <<overlays, parent, receiver, created, result, method, batch, done,
                   notPatchVars>>

\* line 37: dataclasses.replace(self, pickup_assignment=new_pickup_assignment)
ReplacePickupAssignment ==
    /\ gpc = "assigning"
    /\ done = Len(batch)
    /\ overlays' = Append(overlays, [overlays[receiver] EXCEPT
                                        !.pickup_assignment = new_pickup_assignment])
    /\ created' = Append(created, Deref(dicts, overlays'[Len(overlays')]))
    /\ parent' = Append(parent, receiver)
    /\ result' = Len(overlays')
    /\ new_pickup_assignment' = 0
    /\ gpc' = "returned"
    /\ UNCHANGED <<dicts, receiver, method, batch, done, notPatchVars>>

\* lines 43-44: dataclasses.replace(self, starting_location=location)
AssignStartingLocation ==
    /\ CanCall
    /\ \E self \in DOMAIN overlays, location \in StartingLocations :
          /\ overlays' = Append(overlays, [overlays[self] EXCEPT
                                              !.starting_location = location])
          /\ receiver' = self
          /\ parent' = Append(parent, self)
    /\ created' = Append(created, Deref(dicts, overlays'[Len(overlays')]))
    /\ result' = Len(overlays')
    /\ method' = "assign_starting_location"
    /\ batch' = <<>>
    /\ done' = 0
    /\ new_pickup_assignment' = 0
    /\ gpc' = "returned"
    /\ UNCHANGED <<dicts, notPatchVars>>

PatchesNext ==
    \/ WithGame
    \/ AssignNewPickups
    \/ AssignPickupAssignment
    \/ AssignPickup
    \/ AssertionFails
    \/ ReplacePickupAssignment
    \/ AssignStartingLocation

SpecPatches == PatchesInit /\ [][PatchesNext]_vars

(***************************************************************************)
(* Properties of GamePatches.                                              *)
(***************************************************************************)
Value(i) == Deref(dicts, overlays[i])

AssigningPickups == method \in {"assign_new_pickups", "assign_pickup_assignment"}

\* C12: no mutator changes the field values of its receiver, nor of any other
\* overlay: every overlay keeps the values it was constructed with; and the
\* overlay a mutator returns has the receiver's values in every field but the
\* targeted one.
C12_ReceiverNeverMutated ==
    /\ \A i \in DOMAIN overlays : Value(i) = created[i]
    /\ (gpc = "returned" /\ AssigningPickups) =>
           [Value(result) EXCEPT !.pickup_assignment = Value(receiver).pickup_assignment]
               = Value(receiver)
    /\ (gpc = "returned" /\ method = "assign_starting_location") =>
           [Value(result) EXCEPT !.starting_location = Value(receiver).starting_location]
               = Value(receiver)

\* assign_new_pickups has returned an overlay with one more assignment than
\* its receiver, which has an assignment and other fields of its own.
C12_Witness ==
    /\ gpc = "returned"
    /\ method = "assign_new_pickups"
    /\ batch # <<>>
    /\ Value(receiver).pickup_assignment # <<>>
    /\ Value(result).pickup_assignment # Value(receiver).pickup_assignment
    /\ Value(receiver).elevator_connection # <<>>

\* The batch names an index the receiver has assigned, or names one twice.
BatchRepeatsAnIndex ==
    \/ \E i \in DOMAIN batch : batch[i][1] \in DOMAIN Value(receiver).pickup_assignment
    \/ \E i, j \in DOMAIN batch : i # j /\ batch[i][1] = batch[j][1]

\* C13: a call of assign_new_pickups or assign_pickup_assignment fails exactly
\* when its batch names an index the receiver has assigned or names an index
\* twice; a failed call returns no overlay and leaves the receiver as it was;
\* and every overlay holds, at each index its parent has assigned, the entry
\* the parent holds there.
C13_WriteOncePerIndex ==
    /\ (AssigningPickups /\ gpc = "raised") =>
           BatchRepeatsAnIndex /\ result = 0 /\ Value(receiver) = created[receiver]
    /\ (AssigningPickups /\ gpc = "returned") => ~BatchRepeatsAnIndex
    /\ (AssigningPickups /\ gpc = "assigning" /\ BatchRepeatsAnIndex) => result = 0
    /\ \A i \in DOMAIN overlays :
          parent[i] # 0 =>
              \A index \in DOMAIN Value(parent[i]).pickup_assignment :
                  /\ index \in DOMAIN Value(i).pickup_assignment
                  /\ Value(i).pickup_assignment[index] =
                         Value(parent[i]).pickup_assignment[index]

\* A call failed on a batch whose second pair repeats the index of its first,
\* an index the receiver has not assigned, the receiver having assigned
\* another.
C13_Witness ==
    /\ gpc = "raised"
    /\ method = "assign_new_pickups"
    /\ Len(batch) >= 2
    /\ batch[1][1] = batch[2][1]
    /\ batch[1][2] # batch[2][2]
    /\ batch[1][1] \notin DOMAIN Value(receiver).pickup_assignment
    /\ Value(receiver).pickup_assignment # <<>>

(***************************************************************************)
(* actions_with_reach (randovania/resolver/logic.py), as its contract and   *)
(* its tests in test/resolver/test_logic.py give it.                        *)
(***************************************************************************)
LogicInit ==
    /\ ReleaseIdle
    /\ TrackerIdle
    /\ RunIdle
    /\ ApplyIdle
    /\ IdxIdle
    /\ ElevIdle
    /\ PatchesIdle
    /\ candidate_nodes \in SeqsUpTo(Nodes, MaxNodes)
    /\ state_resources \in SUBSET {Resource(node) : node \in ResourceNodes}
    /\ satisfied_for \in SUBSET ResourceNodes
    /\ actions = <<>>
    /\ lpc = "called"

IsActionOfAnyResourceNode(node, resources, satisfied) ==
    /\ IsResourceNode(node)
    /\ Resource(node) \notin resources
    /\ node \in satisfied

\* A node is an action when it is an event node, the state does not hold its
\* resource and its additional requirement is satisfied.
IsAction(node, resources, satisfied) ==
    /\ node.kind = "EventNode"
    /\ Resource(node) \notin resources
    /\ node \in satisfied

\* The loop over the nodes, appending the actions to the result.
RECURSIVE ActionsOf(_, _, _, _)
ActionsOf(nodes, resources, satisfied, so_far) ==
    IF nodes = <<>>
    THEN so_far
    ELSE ActionsOf(Tail(nodes), resources, satisfied,
                   IF IsAction(Head(nodes), resources, satisfied)
                   THEN Append(so_far, Head(nodes))
                   ELSE so_far)

ActionsWithReach ==
    /\ lpc = "called"
    /\ actions' = ActionsOf(candidate_nodes, state_resources, satisfied_for, <<>>)
    /\ lpc' = "returned"
    /\ UNCHANGED <<candidate_nodes, state_resources, satisfied_for, notLogicVars>>

LogicNext == ActionsWithReach

SpecLogic == LogicInit /\ [][LogicNext]_vars

\* The positions of the input that hold an event node whose resource the
\* state does not hold and whose additional requirement is satisfied.
QualifyingPositions ==
    {i \in DOMAIN candidate_nodes :
        /\ candidate_nodes[i].kind = "EventNode"
        /\ Resource(candidate_nodes[i]) \notin state_resources
        /\ candidate_nodes[i] \in satisfied_for}

\* C14: the result lists the qualifying positions of the input, each once, in
\* the order of the input; it holds no node that is not an event node, and
\* it is empty for an empty input.
C14_EventActionsInInputOrder ==
    lpc = "returned" =>
        /\ \E position \in [DOMAIN actions -> DOMAIN candidate_nodes] :
              /\ {position[k] : k \in DOMAIN actions} = QualifyingPositions
              /\ \A j, k \in DOMAIN actions : j < k => position[j] < position[k]
              /\ \A k \in DOMAIN actions : actions[k] = candidate_nodes[position[k]]
        /\ \A k \in DOMAIN actions : actions[k].kind = "EventNode"
        /\ candidate_nodes = <<>> => actions = <<>>

\* A call on three nodes: an event node that is returned, a pickup node that
\* is not held and whose requirement is satisfied, and an event node the
\* state holds.
C14_Witness ==
    /\ lpc = "returned"
    /\ Len(candidate_nodes) = 3
    /\ Len(actions) = 1
    /\ \E i \in DOMAIN candidate_nodes :
          /\ candidate_nodes[i].kind = "PickupNode"
          /\ Resource(candidate_nodes[i]) \notin state_resources
          /\ candidate_nodes[i] \in satisfied_for
    /\ \E i \in DOMAIN candidate_nodes :
          /\ candidate_nodes[i].kind = "EventNode"
          /\ Resource(candidate_nodes[i]) \in state_resources

(***************************************************************************)
(* The tracker window.  Each action is one handler of the window, run to    *)
(* its end or to the exception that leaves it.  _actions and                *)
(* _collected_pickups are attributes of the class: every window reads and   *)
(* writes the same list and the same dict.                                  *)
(***************************************************************************)
\* lines 60-64
StartingNodes(initial) ==
    {node \in AllNodes : IsResourceNode(node) /\ initial.resources[Resource(node)] > 0}

\* lines 75-77
CollectedNodes(initial, history) ==
    StartingNodes(initial)
        \cup {history[i] : i \in {j \in DOMAIN history : IsResourceNode(history[j])}}

\* add_resource_gain_to_state
AddResourceGain(resources, gain) == [r \in Resources |-> resources[r] + gain[r]]

AddPickupGainOnce(resources, gain, quantity) ==
    IF quantity = 0 THEN resources ELSE [r \in Resources |-> resources[r] + gain[r]]

\* lines 238-239: the gain of a pickup, quantity times.
RECURSIVE AddPickupGain(_, _, _)
AddPickupGain(resources, gain, quantity) ==
    IF quantity = 0 THEN resources
    ELSE AddPickupGain(AddResourceGain(resources, gain), gain, quantity - 1)

\* lines 237-239: the loop over _collected_pickups.items()
RECURSIVE AddCollectedPickups(_, _, _)
AddCollectedPickups(resources, collected, pickups) ==
    IF pickups = {} THEN resources
    ELSE LET pickup == CHOOSE p \in pickups : TRUE
         IN  AddCollectedPickups(
                 AddPickupGain(resources, PickupDatabase.resource_gain[pickup],
                               collected[pickup]),
                 collected, pickups \ {pickup})

\* node.resource_gain_on_collect(state.patches) under the empty overlay of
\* line 47: the resource of the node, once.
ResourceGainOnCollect(node) == Gain(Resource(node), 1)

\* lines 241-242: the loop over _collected_nodes
RECURSIVE AddCollectedNodes(_, _)
AddCollectedNodes(resources, nodes) ==
    IF nodes = {} THEN resources
    ELSE LET node == CHOOSE n \in nodes : TRUE
         IN  AddCollectedNodes(AddResourceGain(resources, ResourceGainOnCollect(node)),
                               nodes \ {node})

\* lines 233-244, for a history that is not empty.
StateForCurrentConfiguration(initial, history, collected) ==
    [node |-> history[Len(history)],
     resources |->
        AddCollectedNodes(
            AddCollectedPickups(initial.resources, collected, DOMAIN collected),
            CollectedNodes(initial, history))]

\* ResolverReach.calculate_reach(logic, state).nodes
CalculateReach(state) ==
    {node \in AllNodes : \A r \in Resources : state.resources[r] >= Requirement(node)[r]}

\* lines 104-112: update_locations_tree_for_reachable_nodes, for a history
\* that is not empty.  Lines 114-131 show and hide the items of the tree by
\* nodes_in_reach and the two filters of the window.
UpdateLocationsTree(history, collected) ==
    LET state == StateForCurrentConfiguration(layout_configuration, history, collected)
    IN  /\ reach_state' = state
        /\ nodes_in_reach' = CalculateReach(state) \cup {state.node}

\* Line 85 and line 235 read _actions[-1]: IndexError on an empty list.
RaisesIndexError(history) == history = <<>>

Handler(op, w, item, refreshed, raised_error) ==
    [op |-> op, window |-> w, item |-> item, refreshed |-> refreshed,
     raised |-> raised_error]

\* A tree item without a node attribute: the item of a world or of an area.
NoItem == [kind |-> "none", name |-> "none"]

\* lines 83-86, after the handler changed the history and the windows.
RefreshForNewAction(op, w, item, wins, history) ==
    LET enabled == [wins EXCEPT ![w].undo_enabled = Len(history) > 1]
    IN  /\ windows' = enabled
        /\ IF RaisesIndexError(history)
           THEN /\ last' = Handler(op, w, item, FALSE, TRUE)
                /\ UNCHANGED <<reach_state, nodes_in_reach>>
           ELSE /\ last' = Handler(op, w, item, TRUE, FALSE)
                /\ UpdateLocationsTree(history, _collected_pickups')

TrackerInit ==
    /\ ReleaseIdle
    /\ RunIdle
    /\ ApplyIdle
    /\ IdxIdle
    /\ ElevIdle
    /\ PatchesIdle
    /\ LogicIdle
    /\ layout_configuration \in InitialStates
    /\ _actions = <<>>
    /\ _collected_pickups = <<>>
    /\ windows = [w \in Windows |-> ClosedWindow]
    /\ reach_state = <<>>
    /\ nodes_in_reach = {}
    /\ last = Handler("none", "none", NoItem, FALSE, FALSE)

\* lines 195-198: setup_pickups_box sets every pickup of the database to 0.
SetupPickupsBox(collected) == [pickup \in PickupDatabase.pickups |-> 0]

\* lines 37-65: TrackerWindow(layout_configuration)
Construct ==
    \E w \in Windows :
        /\ ~windows[w].constructed
        /\ Len(_actions) < MaxHistory
        /\ _collected_pickups' = SetupPickupsBox(_collected_pickups)
        /\ _actions' = Append(_actions, layout_configuration.node)
        /\ RefreshForNewAction("construct", w, NoItem,
                               [windows EXCEPT ![w].constructed = TRUE], _actions')
        /\ UNCHANGED <<layout_configuration, notTrackerVars>>

\* lines 139-158: the items of the tree of a window: one per node, and the
\* items of the worlds and areas, which carry no node.
TreeItems(w) == AllNodes \cup {NoItem}

IsInHistory(node, history) == \E i \in DOMAIN history : history[i] = node

\* line 101: node != self._actions[-1], negated
IsCurrentLocation(node, history) == node = history[Len(history)]

\* lines 98-102, with lines 88-91: _on_tree_node_double_clicked
DoubleClick ==
    \E w \in Windows : \E item \in TreeItems(w) :
        /\ windows[w].constructed
        /\ UNCHANGED <<layout_configuration, _collected_pickups, notTrackerVars>>
        /\ IF item = NoItem
           THEN /\ last' = Handler("double_click", w, item, FALSE, FALSE)
                /\ UNCHANGED <<_actions, windows, reach_state, nodes_in_reach>>
           ELSE IF RaisesIndexError(_actions)
           THEN /\ last' = Handler("double_click", w, item, FALSE, TRUE)
                /\ UNCHANGED <<_actions, windows, reach_state, nodes_in_reach>>
           ELSE IF IsCurrentLocation(item, _actions)
           THEN /\ last' = Handler("double_click", w, item, FALSE, FALSE)
                /\ UNCHANGED <<_actions, windows, reach_state, nodes_in_reach>>
           ELSE /\ Len(_actions) < MaxHistory
                /\ _actions' = Append(_actions, item)
                /\ RefreshForNewAction("double_click", w, item, windows, _actions')

\* lines 93-96: _undo_last_action, the slot of the undo button of a window;
\* a disabled button is not clicked.
UndoLastAction ==
    \E w \in Windows :
        /\ windows[w].constructed
        /\ windows[w].undo_enabled
        /\ UNCHANGED <<layout_configuration, _collected_pickups, notTrackerVars>>
        /\ IF _actions = <<>>
           THEN /\ last' = Handler("undo", w, NoItem, FALSE, TRUE)
                /\ UNCHANGED <<_actions, windows, reach_state, nodes_in_reach>>
           ELSE /\ _actions' = SubSeq(_actions, 1, Len(_actions) - 1)
                /\ RefreshForNewAction("undo", w, NoItem, windows, _actions')

\* The pickups setup_pickups_box gives a spin box (lines 202-216) and a check
\* box (lines 217-220); an expansion of quantity below 2 gets neither.
HasSpinBox(pickup) ==
    /\ PickupDatabase.item_category[pickup] = "expansion"
    /\ PickupDatabase.original_quantity[pickup] >= 2

HasCheckBox(pickup) == PickupDatabase.item_category[pickup] # "expansion"

\* Qt.Unchecked and Qt.Checked, the values stateChanged carries.
CheckStates == {0, 2}

\* What the widget of a pickup can call _change_item_quantity with.
WidgetValues(pickup) ==
    IF HasSpinBox(pickup) THEN 0..PickupDatabase.original_quantity[pickup]
    ELSE IF HasCheckBox(pickup) THEN CheckStates
    ELSE {}

\* lines 161-165
NormalisedQuantity(use_quantity_as_bool, quantity) ==
    IF use_quantity_as_bool THEN (IF quantity # 0 THEN 1 ELSE 0) ELSE quantity

\* lines 104-107 reached with an empty history: line 235 raises.
UpdateOrRaise(op, w) ==
    IF RaisesIndexError(_actions)
    THEN /\ last' = Handler(op, w, NoItem, FALSE, TRUE)
         /\ UNCHANGED <<reach_state, nodes_in_reach>>
    ELSE /\ last' = Handler(op, w, NoItem, TRUE, FALSE)
         /\ UpdateLocationsTree(_actions, _collected_pickups')

\* lines 160-168: _change_item_quantity, the slot of the widget of a pickup.
ChangeItemQuantity ==
    \E w \in Windows, pickup \in PickupDatabase.pickups :
        \E quantity \in WidgetValues(pickup) :
            /\ windows[w].constructed
            /\ _collected_pickups' =
                   DictSet(_collected_pickups, pickup,
                           NormalisedQuantity(HasCheckBox(pickup), quantity))
            /\ UpdateOrRaise("quantity", w)
            /\ UNCHANGED <<layout_configuration, _actions, windows, notTrackerVars>>

\* lines 48-49: a filter check box of a window changes its state; the slot is
\* update_locations_tree_for_reachable_nodes itself.
FilterChange ==
    \E w \in Windows :
        /\ windows[w].constructed
        /\ UNCHANGED <<layout_configuration, _actions, _collected_pickups, windows,
                       notTrackerVars>>
        /\ UpdateOrRaise("filter", w)

TrackerNext ==
    \/ Construct
    \/ DoubleClick
    \/ UndoLastAction
    \/ ChangeItemQuantity
    \/ FilterChange

SpecTracker == TrackerInit /\ [][TrackerNext]_vars

(***************************************************************************)
(* Properties of the tracker window.                                       *)
(***************************************************************************)
Constructed == {w \in Windows : windows[w].constructed}

\* C15: once a window is constructed, and after every handler of a window,
\* the action history is not empty and starts with the node of the initial
\* state.
C15_HistoryStartsAtInitialNode ==
    Constructed # {} =>
        /\ _actions # <<>>
        /\ _actions[1] = layout_configuration.node

HistoryChanged == _actions' # _actions

UndoStep == last'.op = "undo" /\ (HistoryChanged \/ last'.raised)

\* C16: after every handler that changed the history, the undo button of its
\* window is enabled exactly when the history has more than one entry; and
\* an undo removes the last entry of the history and nothing else, leaves the
\* declared quantities as they are and recomputes the reach.
C16_UndoEnabledIffLongerThanOne ==
    /\ [][HistoryChanged =>
            (windows'[last'.window].undo_enabled <=> Len(_actions') > 1)]_vars
    /\ [][UndoStep =>
            /\ _actions # <<>>
            /\ _actions' = SubSeq(_actions, 1, Len(_actions) - 1)
            /\ _collected_pickups' = _collected_pickups
            /\ last'.refreshed]_vars

DoubleClickStep == last'.op = "double_click"

\* C17: a double-click on the item of a node other than the last entry of the
\* history appends that node, and nothing else, to the history and recomputes
\* the reach; a double-click on the item of the last entry, or on an item
\* without a node, leaves the history, the declared quantities and the undo
\* buttons as they are and recomputes nothing.
C17_DoubleClickAppendsOtherNode ==
    [][(DoubleClickStep /\ _actions # <<>>) =>
          IF last'.item \in AllNodes /\ last'.item # _actions[Len(_actions)]
          THEN /\ _actions' = Append(_actions, last'.item)
               /\ _collected_pickups' = _collected_pickups
               /\ last'.refreshed
               /\ reach_state'.node = last'.item
          ELSE /\ _actions' = _actions
               /\ _collected_pickups' = _collected_pickups
               /\ windows' = windows
               /\ reach_state' = reach_state
               /\ nodes_in_reach' = nodes_in_reach
               /\ ~last'.refreshed]_vars

\* A double-click has appended a third node to the history, a node that was
\* in the history before.
C17_Witness ==
    /\ last.op = "double_click"
    /\ last.refreshed
    /\ Len(_actions) = 3
    /\ _actions[3] = last.item
    /\ _actions[1] = last.item

InitialState == layout_configuration

AllQuantitiesZero == \A pickup \in DOMAIN _collected_pickups : _collected_pickups[pickup] = 0

\* What the declared quantities add to a resource: the gain of each pickup,
\* times its quantity.
RECURSIVE DeclaredGain(_, _)
DeclaredGain(resource, pickups) ==
    IF pickups = {} THEN 0
    ELSE LET pickup == CHOOSE p \in pickups : TRUE
         IN  _collected_pickups[pickup] * PickupDatabase.resource_gain[pickup][resource]
                 + DeclaredGain(resource, pickups \ {pickup})

\* The nodes whose on-collect gain a recompute applies: the resource nodes
\* whose resource the initial state holds, and the resource nodes of the
\* history.
CollectedInRecompute ==
    {node \in AllNodes :
        /\ IsResourceNode(node)
        /\ \/ InitialState.resources[Resource(node)] > 0
           \/ \E i \in DOMAIN _actions : _actions[i] = node}

CollectedGain(resource) == Cardinality({node \in CollectedInRecompute : Resource(node) = resource})

\* C18 as stated: a recompute with only the initial node in the history and
\* every declared quantity zero gives the reach of the initial state; and a
\* recompute applies the gain of each pickup as many times as its declared
\* quantity.
C18_ZeroQuantitiesGiveInitialReach ==
    last.refreshed =>
        /\ (_actions = <<InitialState.node>> /\ AllQuantitiesZero) =>
               nodes_in_reach = CalculateReach(InitialState) \cup {InitialState.node}
        /\ \A resource \in ItemResources :
               reach_state.resources[resource] =
                   InitialState.resources[resource]
                       + DeclaredGain(resource, DOMAIN _collected_pickups)

\* C18, amended: a recompute hands the reach query the initial state moved to
\* the last node of the history, with the gain of each pickup applied as many
\* times as its declared quantity and the on-collect gain of each collected
\* node applied once; with only the initial node in the history, every
\* quantity zero and no node collected, the result is the reach of the
\* initial state.
C18_RecomputeFromCollectedAndDeclared ==
    last.refreshed =>
        /\ reach_state.node = _actions[Len(_actions)]
        /\ \A resource \in Resources :
               reach_state.resources[resource] =
                   InitialState.resources[resource]
                       + DeclaredGain(resource, DOMAIN _collected_pickups)
                       + CollectedGain(resource)
        /\ nodes_in_reach = CalculateReach(reach_state) \cup {reach_state.node}
        /\ (_actions = <<InitialState.node>> /\ AllQuantitiesZero /\ CollectedInRecompute = {}) =>
               nodes_in_reach = CalculateReach(InitialState) \cup {InitialState.node}

\* A recompute with a declared quantity of 2 that brought the event node,
\* which asks for two missiles, in reach of the initial node.
C18_Witness ==
    /\ last.refreshed
    /\ last.op = "quantity"
    /\ _collected_pickups["Missile Expansion"] = 2
    /\ _actions = <<Spawn>>
    /\ Boss \in nodes_in_reach
    /\ Boss \notin CalculateReach(InitialState)

(***************************************************************************)
(* create_windows_release.py: the script, statement by statement.  A       *)
(* statement that raises ends the script; "aborted" is that end.           *)
(***************************************************************************)
\* line 16
package_folder_path == <<"dist", "randovania">>

ReleaseInit ==
    /\ RunIdle
    /\ ApplyIdle
    /\ IdxIdle
    /\ ElevIdle
    /\ PatchesIdle
    /\ LogicIdle
    /\ TrackerIdle
    /\ package_folder \in StaleFolders
    /\ readme_assets \in ReadmeAssets
    /\ binary_data = FALSE
    /\ release_zip = NoArchive
    /\ glob_left = {}
    /\ walk_left = {}
    /\ ran = <<>>
    /\ failed = {}
    /\ kpc = "rmtree"

\* The exception of a step ends the script.
Raise(step) ==
    /\ failed' = failed \cup {step}
    /\ kpc' = "aborted"

\* line 17: shutil.rmtree(package_folder, ignore_errors=True).  A tree that
\* cannot be removed (a file of it in use) stays, and the error is dropped.
Rmtree ==
    /\ kpc = "rmtree"
    /\ ran' = Append(ran, "clear")
    /\ \E removed \in BOOLEAN :
        /\ ~removed => package_folder # {}
        /\ package_folder' = IF removed THEN {} ELSE package_folder
        /\ failed' = IF removed THEN failed ELSE failed \cup {"clear"}
    /\ kpc' = "export"
    /\ UNCHANGED <<readme_assets, binary_data, release_zip, glob_left, walk_left>>
    /\ UNCHANGED notReleaseVars

\* lines 19-20: prime_database.export_as_binary(...); its exception is not caught.
ExportAsBinary ==
    /\ kpc = "export"
    /\ ran' = Append(ran, "export")
    /\ \E exported \in BOOLEAN :
        IF exported
        THEN binary_data' = TRUE /\ kpc' = "bundle" /\ UNCHANGED failed
        ELSE Raise("export") /\ UNCHANGED binary_data
    /\ UNCHANGED <<package_folder, readme_assets, release_zip, glob_left, walk_left>>
    /\ UNCHANGED notReleaseVars

\* The exit statuses of the bundler: success and failure.
ReturnCodes == {0, 1}

\* line 22: subprocess.run([sys.executable, "-m", "PyInstaller", "randovania.spec"]),
\* without check=True and with its CompletedProcess dropped: whatever the
\* status, the script goes on to line 24.
RunPyInstaller ==
    /\ kpc = "bundle"
    /\ ran' = Append(ran, "bundle")
    /\ \E bundle \in Bundles, returncode \in ReturnCodes :
        /\ IF returncode = 0
           THEN package_folder' = package_folder \cup bundle /\ UNCHANGED failed
           ELSE /\ \E part \in PartsOf(bundle) : package_folder' = package_folder \cup part
                /\ failed' = failed \cup {"bundle"}
        /\ kpc' = "archive"
    /\ UNCHANGED <<readme_assets, binary_data, release_zip, glob_left, walk_left>>
    /\ UNCHANGED notReleaseVars

\* line 25: package_folder.glob("**/*"), every path below the folder, the
\* directories as well as the files.
Glob(folder) ==
    {[path |-> package_folder_path \o entry.path, is_dir |-> entry.is_dir] : entry \in folder}

\* line 27: f.relative_to(package_folder)
RelativeTo(path, base) == SubSeq(path, Len(base) + 1, Len(path))

\* "{}/{}".format(zip_folder, path): the name of an entry, a path again.
ArcName(path) == <<zip_folder>> \o path

\* An entry of the archive; ZipFile.write of a directory adds an entry for
\* the directory itself.
ZipEntry(arcname, is_dir) == [name |-> arcname, is_dir |-> is_dir]

\* line 24: zipfile.ZipFile("dist/<zip_folder>.zip", "w", ...)
OpenZipFile ==
    /\ kpc = "archive"
    /\ ran' = Append(ran, "archive")
    /\ \E opened \in BOOLEAN :
        IF opened
        THEN /\ release_zip' = [exists |-> TRUE, entries |-> <<>>]
             /\ glob_left' = Glob(package_folder)
             /\ kpc' = "glob"
             /\ UNCHANGED failed
        ELSE Raise("archive") /\ UNCHANGED <<release_zip, glob_left>>
    /\ UNCHANGED <<package_folder, readme_assets, binary_data, walk_left>>
    /\ UNCHANGED notReleaseVars

\* lines 25-27: one turn of the loop over the staged paths.
WriteStaged ==
    /\ kpc = "glob"
    /\ \E f \in glob_left :
        /\ release_zip' =
            [release_zip EXCEPT !.entries =
                Append(@, ZipEntry(ArcName(RelativeTo(f.path, package_folder_path)), f.is_dir))]
        /\ glob_left' = glob_left \ {f}
    /\ UNCHANGED <<package_folder, readme_assets, binary_data, walk_left, ran, failed, kpc>>
    /\ UNCHANGED notReleaseVars

\* lines 29-31: README.md rendered and written as <zip_folder>/README.html.
WriteReadmeHtml ==
    /\ kpc = "glob"
    /\ glob_left = {}
    /\ release_zip' =
        [release_zip EXCEPT !.entries = Append(@, ZipEntry(ArcName(<<"README.html">>), FALSE))]
    /\ walk_left' = readme_assets
    /\ kpc' = "walk"
    /\ UNCHANGED <<package_folder, readme_assets, binary_data, glob_left, ran, failed>>
    /\ UNCHANGED notReleaseVars

\* lines 33-36: one turn of the loops over the files os.walk finds.
WriteReadmeAsset ==
    /\ kpc = "walk"
    /\ \E path \in walk_left :
        /\ release_zip' =
            [release_zip EXCEPT !.entries = Append(@, ZipEntry(ArcName(path), FALSE))]
        /\ walk_left' = walk_left \ {path}
    /\ UNCHANGED <<package_folder, readme_assets, binary_data, glob_left, ran, failed, kpc>>
    /\ UNCHANGED notReleaseVars

\* The end of the with block of line 24: the archive is closed.
CloseZipFile ==
    /\ kpc = "walk"
    /\ walk_left = {}
    /\ kpc' = "done"
    /\ UNCHANGED <<package_folder, readme_assets, binary_data, release_zip, glob_left,
                   walk_left, ran, failed>>
    /\ UNCHANGED notReleaseVars

\* lines 25-36: a write that raises leaves the with block, which closes the
\* archive with the entries written so far.
WriteRaises ==
    /\ kpc \in {"glob", "walk"}
    /\ Raise("archive")
    /\ UNCHANGED <<package_folder, readme_assets, binary_data, release_zip, glob_left,
                   walk_left, ran>>
    /\ UNCHANGED notReleaseVars

ReleaseNext ==
    \/ Rmtree
    \/ ExportAsBinary
    \/ RunPyInstaller
    \/ OpenZipFile
    \/ WriteStaged
    \/ WriteReadmeHtml
    \/ WriteReadmeAsset
    \/ CloseZipFile
    \/ WriteRaises

SpecRelease == ReleaseInit /\ [][ReleaseNext]_vars

\* C19: every step of the packager is fatal on failure: a step that failed
\* is the last step that ran and the script has aborted, so no archive is
\* finished after a failed step.
C19_EveryStepFatal ==
    \A i \in DOMAIN ran :
        ran[i] \in failed => i = Len(ran) /\ kpc = "aborted"

\* The entries the archive is to hold: one per staged file, README.html,
\* one per file under randovania-readme.
StagedFiles == {entry \in package_folder : ~entry.is_dir}
ExpectedEntries ==
    {ZipEntry(ArcName(entry.path), FALSE) : entry \in StagedFiles}
        \cup {ZipEntry(ArcName(<<"README.html">>), FALSE)}
        \cup {ZipEntry(ArcName(path), FALSE) : path \in readme_assets}
ArchiveEntries == {release_zip.entries[i] : i \in DOMAIN release_zip.entries}

\* C20: when every step succeeded, the entries of the finished archive are
\* exactly one per staged file under the versioned prefix, README.html, and
\* one per file under randovania-readme: none more, none missing.
C20_ArchiveEntriesExact ==
    (kpc = "done" /\ failed = {}) =>
        /\ ArchiveEntries = ExpectedEntries
        /\ Len(release_zip.entries) = Cardinality(ExpectedEntries)

(***************************************************************************)
(* try_randomize_elevators as a running call: a step is taken whenever one *)
(* is possible.                                                            *)
(***************************************************************************)
SpecShuffleFair == ShuffleInit /\ [][ElevNext]_vars /\ WF_vars(ElevNext)

\* The call has returned its database to the caller.
Returned == epc \in {"returned", "connections"}

\* The wavefront from the first elevator reaches every elevator.
IsConnected == Reached({1}) = AllElevators

\* Phase 1 has ended with a pairing that is connected.
ConnectedPairing == epc = "pairing" /\ elevator_list = <<>> /\ IsConnected

\* C22: a disconnected shuffle reaches the caller neither as a result nor as
\* an error: a returned database is connected, and an exception comes from
\* the pairing loop only.  Every pairing step takes two elevators off the
\* work list and every validation step takes at least one off the unvisited
\* ones or ends the attempt.  If the random source ever yields a connected
\* pairing, the call returns.
C22_DisconnectedNeverSurfaced ==
    /\ [](Returned => IsConnected)
    /\ [](epc = "raised" => elevator_list # <<>>)
    /\ [][randomizer' # randomizer =>
            Len(elevator_list') = Len(elevator_list) - 2]_vars
    /\ [][epc = "validating" =>
            Len(list3') < Len(list3) \/ epc' # "validating"]_vars
    /\ (<>ConnectedPairing => <>Returned)

\* The caller has the database of a retry: the attempt before it was
\* disconnected and was not surfaced.
C22_Witness == epc = "connections" /\ calls > 1 /\ IsConnected

(***************************************************************************)
(* The tracker windows of one process.                                     *)
(***************************************************************************)
\* The windows, other than the one whose constructor or handler runs in this
\* step, that were constructed before it.
OtherWindows == {w \in Constructed : w # last'.window}

\* C23: the history and the declared quantities belong to a window: the
\* construction of a window and the handlers of a window leave the history
\* and the declared quantities that every other window reads as they were,
\* and a window just constructed has a history of its initial node alone.
C23_HistoryAndQuantitiesPerWindow ==
    /\ [][OtherWindows # {} =>
            /\ _actions' = _actions
            /\ _collected_pickups' = _collected_pickups]_vars
    /\ [][last'.op = "construct" /\ last'.window \notin Constructed =>
            _actions' = <<layout_configuration.node>>]_vars

(***************************************************************************)
(* apply_layout, call after call, on a game as installed: every archive    *)
(* the original, no backup folder, no menu mod marker.                     *)
(***************************************************************************)
PristineInit ==
    /\ ReleaseIdle
    /\ TrackerIdle
    /\ LogicIdle
    /\ PatchesIdle
    /\ RunIdle
    /\ IdxIdle
    /\ ElevIdle
    /\ live = [p \in AllPaks |-> "orig"]
    /\ backup = [p \in AllPaks |-> ABSENT]
    /\ backupDir = FALSE
    /\ marker = FALSE
    /\ jsonFile = FALSE
    /\ valid = TRUE
    /\ menu_mod = FALSE
    /\ start = Snapshot
    /\ restored = {}
    /\ backedUp = {}
    /\ wrote = {}
    /\ invoked = <<>>
    /\ emitted = {}
    /\ apc = "idle"

SpecPristine == PristineInit /\ [][ApplyNext]_vars

\* C24: on a game that was pristine before the first call, every archive in
\* the backup folder holds the original, whatever calls came after, with or
\* without menu mod, failed or not: a backup is copied from a live archive
\* that still is the original, and a backup that exists is not written again.
C24_BackupsHoldOriginals ==
    /\ [](\A p \in AllPaks : backup[p] \in {ABSENT, "orig"})
    /\ [][\A p \in AllPaks :
            /\ backup[p] # ABSENT => backup'[p] = backup[p]
            /\ (backup[p] = ABSENT /\ backup'[p] # ABSENT) => live[p] = "orig"]_vars

\* A later call, begun on archives a tool has rewritten, is past its backup
\* step, and the backups are there.
C24_Witness ==
    /\ apc = "save"
    /\ \E p \in EchoesPakSet :
          /\ start.live[p] = "rand"
          /\ live[p] = "rand"
          /\ backup[p] = "orig"

(***************************************************************************)
(* Phase 1 of try_randomize_elevators on a balanced database.              *)
(***************************************************************************)
\* An even number of elevators, no world with more than half of them.
Balanced ==
    /\ echoes_elevators.count % 2 = 0
    /\ \A w \in DOMAIN GroupByWorld(echoes_elevators) :
          2 * Len(GroupByWorld(echoes_elevators)[w]) <= echoes_elevators.count

\* The pairing steps of the running call.
PairingSteps == randomizer - (calls - 1) * DrawsPerAttempt

\* C25: on a balanced database Phase 1 never raises: while elevators remain,
\* the largest group has an elevator, there is a target outside it and every
\* value the randomizer can return is an index of the targets; each step
\* pairs two elevators, and Phase 1 ends after N/2 steps with the work list
\* and every world group empty.
C25_BalancedPairingNeverStuck ==
    Balanced =>
        /\ epc # "raised"
        /\ epc = "pairing" =>
              Len(elevator_list) = echoes_elevators.count - 2 * PairingSteps
        /\ (epc = "pairing" /\ elevator_list # <<>>) =>
              LET source_elevators ==
                      elevators_by_world[SourceWorld(echoes_elevators, elevators_by_world)]
                  target_elevators == TargetElevators(elevator_list, source_elevators)
              IN  /\ source_elevators # <<>>
                  /\ target_elevators # <<>>
                  /\ \A r \in NextWithMax(Len(target_elevators) - 1) :
                        r + 1 \in DOMAIN target_elevators
        /\ epc \in {"validating", "returned", "connections"} =>
              /\ elevator_list = <<>>
              /\ \A w \in DOMAIN elevators_by_world : elevators_by_world[w] = <<>>
              /\ PairingSteps = DrawsPerAttempt

\* Phase 1 has ended on a database whose largest world holds exactly half of
\* the elevators, next to two smaller ones.
C25_Witness ==
    /\ Balanced
    /\ epc = "validating"
    /\ echoes_elevators.count = 4
    /\ Cardinality(DOMAIN elevators_by_world) = 3
    /\ PairingSteps = 2

====
